---- MODULE Spec2Model ----
(***************************************************************************)
(* ngx-spring: the SpringValue integrator (spring-value.ts), the frame     *)
(* loop that advances the registered SpringValues once per tick            *)
(* (frame-loop, second half of spring-value.ts) and the SpringRef          *)
(* controller built by spring() (dom / three entry points).                *)
(*                                                                         *)
(* Conventions of this development                                         *)
(*  - An optional (undefined-able) JavaScript value is a set with at most  *)
(*    one element: None is undefined, Some(x) is x.                        *)
(*  - An animatable value is the sequence of its numeric components        *)
(*    (_getNumericValues): <<x>> for a number, <<x, y>> for a flat array.  *)
(*  - The operators that translate methods take and return a "world" w:    *)
(*    a record holding a working copy of every state variable plus ev, the *)
(*    list of externally visible events of the running handler (observer   *)
(*    notifications, promise settlements, advance calls).  An action       *)
(*    builds the world from the variables, applies the method and commits. *)
(*    A method is written as a pipeline of small operators, one per        *)
(*    statement group, each taking the world its predecessor produced.     *)
(*  - Numbers are integers.  The inputs (Vals, Dts, Configs) are chosen so *)
(*    that every quotient the duration rule computes is exact, hence the   *)
(*    integer results are the IEEE doubles the code computes.  The springs *)
(*    of the model (StiffConfig) have whole 1 ms steps; the decay rule's   *)
(*    Math.exp is a fixed-point value and its position is exact for the    *)
(*    velocity 0 of the model's configurations.                            *)
(*  - The frame loop is modelled twice: as one atomic tick (no observer    *)
(*    calls back into the library) and turn by turn, where the observers   *)
(*    of the handle being advanced may call start, pause, resume and       *)
(*    frameLoop.sort before the turn ends.                                 *)
(*  - The default spring (tension 170, friction 26) has fractional steps:  *)
(*    it is integrated in fixed point, positions in 1e-6 and velocities    *)
(*    in 1e-8 per ms, each product rounded to the nearest unit.            *)
(*  - NaN is a number no computation of the model yields; the operators    *)
(*    that compare or step test for it and give what IEEE arithmetic       *)
(*    gives (=== is false, every sum and product is NaN).                  *)
(*  - A TypeError thrown in a handler is an event "throw" of the handler;  *)
(*    a springRef.start that throws is an aggregate in state "rejected".   *)
(*  - A spring whose positions are rounded (config.round) need not come   *)
(*    to rest; the runs with a rounding quantum follow an animation for    *)
(*    MaxElapsed ms.                                                       *)
(***************************************************************************)
EXTENDS Integers, Sequences, FiniteSets, TLC

VARIABLES
    sv,            \* key -> SpringValue instance (the controller's springValues map)
    results,       \* the promises returned by SpringValue.start, in creation order
    startQueue,    \* frame loop: animations to start on next frame (insertion ordered Set)
    currentFrame,  \* frame loop: current frame animations, sorted by priority
    priority,      \* frame loop: priority of the currently advancing animation
    ctl,           \* the promises returned by springRef.start, in creation order
    ran,           \* history: key -> [t: the time that passed, in ticks and advance
                   \*   calls, while the Value was animating and not paused, since the
                   \*   start() that began its animation; course: what was called on
                   \*   the Value since: "ticks" (nothing but advances), "held" (pause
                   \*   and resume only) or "other"]
    last,          \* history: the last handler run, its arguments and its events
    loop,          \* frame loop: the tick in progress (the locals of advance(dt) and
                   \*   the turn it is at), the callbacks queued by raf.onFrame, and
                   \*   (history) the turns of the tick
    owned          \* the keys of the controller's springValues map: all of them
                   \*   until the controller is destroyed, none after

vars == <<sv, results, startQueue, currentFrame, priority, ctl, ran, last, loop, owned>>

----------------------------------------------------------------------------
(* Bounds and input sets *)

\* Number of SpringValue.start promises created in one behaviour.
MaxStarts == 2

\* Number of springRef.start promises created in one behaviour.
MaxCtlStarts == 2

\* Number of SpringValue.start promises that springRef.start calls await.
MaxSubs == 3

\* Number of runs of the effects that follow the goal getters.
MaxEffects == 1

\* The keys of the controller (fixed at construction).
Keys == {"a", "b"}

\* The key the single-Value specification operates on.
OneKey == {"a"}

\* Values handed to set / start (numbers).
Vals == {<<0>>, <<8>>}

\* Tick deltas in ms.
Dts == {1, 2}

----------------------------------------------------------------------------
(* Optional values *)

None == {}
Some(x) == {x}
Get(o) == CHOOSE x \in o : TRUE
\* JavaScript truthiness of an optional boolean.
Truthy(o) == o = {TRUE}

Range(s) == {s[i] : i \in 1..Len(s)}
Min(a, b) == IF a < b THEN a ELSE b
Max(a, b) == IF a > b THEN a ELSE b

----------------------------------------------------------------------------
(* config.ts: defaults, and the SpringConfig objects callers pass *)

defaults == [tension |-> 170, friction |-> 26, mass |-> 1, clamp |-> FALSE]

\* A caller's SpringConfig: every field optional.
NoConfig ==
    [tension |-> None, friction |-> None, mass |-> None, velocity |-> None,
     precision |-> None, clamp |-> None, easing |-> None, duration |-> None, decay |-> None,
     bounce |-> None, round |-> None, restVelocity |-> None, progress |-> None]

\* { duration: 2 }: duration mode, linear easing (the default easing).
TimedConfig == [NoConfig EXCEPT !.duration = Some(2)]

\* { tension: 0, duration: 2 }: a loose spring.
LooseConfig == [NoConfig EXCEPT !.tension = Some(0), !.duration = Some(2)]

Configs == {TimedConfig, LooseConfig}

\* { decay: true }: decay mode.
DecayConfig == [NoConfig EXCEPT !.decay = Some(TRUE)]

\* { tension: 1000000, friction: 1000 }: a spring whose 1 ms steps are whole.
StiffConfig == [NoConfig EXCEPT !.tension = Some(1000000), !.friction = Some(1000)]

\* { duration: 2, decay: true }
TimedDecayConfig == [TimedConfig EXCEPT !.decay = Some(TRUE)]

\* { tension: 0, decay: true } and { tension: 0 }: loose in the other modes.
LooseDecayConfig == [DecayConfig EXCEPT !.tension = Some(0)]
LooseSpringConfig == [NoConfig EXCEPT !.tension = Some(0)]

\* { duration: 0 } and { duration: 4 }
InstantConfig == [NoConfig EXCEPT !.duration = Some(0)]
SlowConfig == [NoConfig EXCEPT !.duration = Some(4)]

\* The configurations given to the starts of the duration-mode runs (the
\* constructor gave { duration: 2 }).
DurationConfigs == {InstantConfig, SlowConfig}

\* { tension: 1000000, friction: 1000, precision: 0 }
FineConfig == [StiffConfig EXCEPT !.precision = Some(0)]

\* The configurations of the runs that compare the stepping rules.
RuleConfigs ==
    {TimedConfig, DecayConfig, StiffConfig, TimedDecayConfig,
     LooseConfig, LooseDecayConfig, LooseSpringConfig, FineConfig}

\* a ?? b
Coalesce(o, d) == IF o = None THEN d ELSE Get(o)

\* A _mergeConfig without a default precision.
mergeConfig_bare(config) ==
    [tension      |-> Coalesce(config.tension, defaults.tension),
     friction     |-> Coalesce(config.friction, defaults.friction),
     mass         |-> Coalesce(config.mass, defaults.mass),
     velocity     |-> Coalesce(config.velocity, 0),
     precision    |-> Coalesce(config.precision, 0),
     clamp        |-> Coalesce(config.clamp, defaults.clamp),
     easing       |-> Coalesce(config.easing, "linear"),
     duration     |-> config.duration,
     decay        |-> config.decay,
     bounce       |-> config.bounce,
     round        |-> config.round,
     restVelocity |-> config.restVelocity,
     progress     |-> config.progress]

\* SpringValue._mergeConfig
mergeConfig(config) ==
    [tension      |-> Coalesce(config.tension, defaults.tension),
     friction     |-> Coalesce(config.friction, defaults.friction),
     mass         |-> Coalesce(config.mass, defaults.mass),
     velocity     |-> Coalesce(config.velocity, 0),
     precision    |-> Coalesce(config.precision, 10),   \* 0.01, in units of 0.001
     clamp        |-> Coalesce(config.clamp, defaults.clamp),
     easing       |-> Coalesce(config.easing, "linear"),
     duration     |-> config.duration,
     decay        |-> config.decay,
     bounce       |-> config.bounce,
     round        |-> config.round,
     restVelocity |-> config.restVelocity,
     progress     |-> config.progress]

----------------------------------------------------------------------------
(* SpringValue: state *)

\* AnimatedNode, as _initNodes creates it for the component v.
\* durationProgress is the fraction n/d.
InitNode(v) ==
    [position |-> v, lastPosition |-> v, velocity |-> 0, v0 |-> None,
     elapsedTime |-> 0, durationProgress |-> [n |-> 0, d |-> 1], done |-> FALSE]

\* SpringValue._initNodes
initNodes(value) == [i \in 1..Len(value) |-> InitNode(value[i])]

\* new SpringValue(initial, config)
NewSpringValue(initial, config) ==
    [value            |-> initial,
     to               |-> initial,
     from             |-> initial,
     config           |-> mergeConfig(config),
     nodes            |-> initNodes(initial),
     animating        |-> FALSE,
     paused           |-> FALSE,
     pendingResolvers |-> <<>>,
     priority         |-> 0,
     memoizedDuration |-> 0]

\* get idle()
idle(s) == ~s.animating \/ s.paused

\* The number that stands for NaN: no computation of the model yields it.
NaN == -99999

\* SpringValue._isEqual on numbers and on flat arrays of numbers that are not
\* the same object: === on the components, which NaN never satisfies.
isEqual(a, b) ==
    /\ Len(a) = Len(b)
    /\ \A i \in 1..Len(a) : a[i] = b[i] /\ a[i] # NaN

----------------------------------------------------------------------------
(* Events and promises *)

\* One event of a handler.  e is "notify" (an onChange observer is invoked
\* with value), "settle" (resolve of promise r is called), "advance"
\* (SpringValue.advance is entered) or "rest" (advance marks the Value not
\* animating).
Event(e, k, r, value) == [e |-> e, k |-> k, r |-> r, value |-> value]

Emit(w, event) == [w EXCEPT !.ev = Append(@, event)]

\* A promise of SpringValue.start: pending until resolve is called.
\* calls counts the calls of its resolve function.  The value it is settled
\* with is kept in the "settle" event of the handler that settled it.
NewResult(k) ==
    [k |-> k, state |-> "pending", finished |-> None,
     cancelled |-> None, noop |-> None, calls |-> 0]

\* An AnimationResult object.
Result(value, finished, cancelled, noop) ==
    [value |-> value, finished |-> finished, cancelled |-> cancelled, noop |-> noop]

\* Calling the resolve function of promise r: the first call settles it.
resolve(w, r, result) ==
    LET old == w.results[r]
        new == IF old.state = "pending"
               THEN [old EXCEPT !.state = "settled",
                                !.finished = result.finished,
                                !.cancelled = result.cancelled,
                                !.noop = result.noop, !.calls = @ + 1]
               ELSE [old EXCEPT !.calls = @ + 1]
    IN  Emit([w EXCEPT !.results[r] = new], Event("settle", old.k, r, result.value))

----------------------------------------------------------------------------
(* SpringValue: private helpers *)

\* SpringValue._notifyObservers
notifyObservers(w, k) == Emit(w, Event("notify", k, 0, w.sv[k].value))

\* A _setValue that does not compare.
setValue_always(w, k, value) == notifyObservers([w EXCEPT !.sv[k].value = value], k)

\* SpringValue._setValue
setValue(w, k, value) ==
    IF ~isEqual(w.sv[k].value, value)
    THEN notifyObservers([w EXCEPT !.sv[k].value = value], k)
    ELSE w

\* resolvers.forEach((resolve) => resolve(result))
RECURSIVE resolveEach(_, _, _, _)
resolveEach(w, resolvers, i, result) ==
    IF i > Len(resolvers) THEN w
    ELSE resolveEach(resolve(w, resolvers[i], result), resolvers, i + 1, result)

\* A flush that calls the resolver of the latest start only.
flushPendingResolvers_latest(w, k, result) ==
    resolveEach([w EXCEPT !.sv[k].pendingResolvers = <<>>],
                w.sv[k].pendingResolvers, Len(w.sv[k].pendingResolvers), result)

\* SpringValue._flushPendingResolvers
flushPendingResolvers(w, k, result) ==
    resolveEach([w EXCEPT !.sv[k].pendingResolvers = <<>>],
                w.sv[k].pendingResolvers, 1, result)

\* The node _resetNodes leaves for the component v.
ResetNode(v, config) ==
    [position |-> v, lastPosition |-> v, velocity |-> config.velocity, v0 |-> None,
     elapsedTime |-> 0, durationProgress |-> [n |-> 0, d |-> 1], done |-> FALSE]

\* SpringValue._resetNodes
resetNodes(w, k) ==
    [w EXCEPT !.sv[k].nodes =
        [i \in 1..Len(@) |-> ResetNode(w.sv[k].value[i], w.sv[k].config)]]

\* SpringValue._updateValueFromNodes
updateValueFromNodes(w, k) ==
    setValue(w, k, [i \in 1..Len(w.sv[k].nodes) |-> w.sv[k].nodes[i].position])

----------------------------------------------------------------------------
(* Frame loop *)

\* The frame loop outside a tick: no turn, nothing queued by raf.onFrame.
\* inTick: advance(dt) is running; i: its loop index (1-based); animation:
\* its local `animation`; window: animation.advance(dt) has published a value
\* and its observers run; allDone: the allDone of that advance; nextFrame,
\* dt: the locals; onFrame: the handles of the deferred sorts; returned: the
\* last return value; turns (history): the handles advanced in the tick, with
\* their priority and whether they were idle after their turn; skipped
\* (history): the handles found idle at their turn; sorts (history): the
\* number of calls of frameLoop.sort by callers.
NoTick ==
    [inTick |-> FALSE, i |-> 0, animation |-> "", window |-> FALSE, allDone |-> FALSE,
     nextFrame |-> <<>>, dt |-> 0, onFrame |-> <<>>, returned |-> FALSE,
     turns |-> <<>>, skipped |-> {}, sorts |-> 0]

\* A findIndex whose test also holds for an equal priority.
findIndex_atOrAbove(w, arr, animation) ==
    IF \E i \in 1..Len(arr) : w.sv[arr[i]].priority >= w.sv[animation].priority
    THEN CHOOSE i \in 1..Len(arr) :
            /\ w.sv[arr[i]].priority >= w.sv[animation].priority
            /\ \A j \in 1..(i - 1) : ~(w.sv[arr[j]].priority >= w.sv[animation].priority)
    ELSE Len(arr) + 1

\* findIndex(arr, test) with the test of startUnsafely, 1-based: the first
\* index whose element has a priority above the priority of animation, else
\* one past the end.
findIndex(w, arr, animation) ==
    IF \E i \in 1..Len(arr) : w.sv[arr[i]].priority > w.sv[animation].priority
    THEN CHOOSE i \in 1..Len(arr) :
            /\ w.sv[arr[i]].priority > w.sv[animation].priority
            /\ \A j \in 1..(i - 1) : ~(w.sv[arr[j]].priority > w.sv[animation].priority)
    ELSE Len(arr) + 1

\* arr.splice(i, 0, x), 1-based
InsertAt(arr, i, x) == SubSeq(arr, 1, i - 1) \o <<x>> \o SubSeq(arr, i, Len(arr))

\* A startUnsafely that pushes.
startUnsafely_push(w, animation) ==
    [w EXCEPT !.currentFrame = Append(@, animation)]

\* startUnsafely(animation)
startUnsafely(w, animation) ==
    [w EXCEPT !.currentFrame =
        InsertAt(@, findIndex(w, w.currentFrame, animation), animation)]

\* startSafely(animation)
startSafely(w, animation) ==
    IF animation \notin Range(w.currentFrame)
    THEN startUnsafely(w, animation)
    ELSE w

\* startQueue.add(animation)
startQueue_add(w, animation) ==
    IF animation \in Range(w.startQueue)
    THEN w
    ELSE [w EXCEPT !.startQueue = Append(@, animation)]

\* A frameLoop.start that defers below the priority of the animation.
frameLoop_start_below(w, animation) ==
    IF w.priority < w.sv[animation].priority
    THEN startQueue_add(w, animation)
    ELSE startSafely(w, animation)

\* frameLoop.start(animation).  raf.onStart(flushStartQueue) and raf(advance)
\* only ask the host for a frame: the host's frames are actions.
frameLoop_start(w, animation) ==
    IF w.priority > w.sv[animation].priority
    THEN startQueue_add(w, animation)
    ELSE startSafely(w, animation)

\* startQueue.forEach(startSafely)
RECURSIVE startEach(_, _, _)
startEach(w, queue, i) ==
    IF i > Len(queue) THEN w
    ELSE startEach(startSafely(w, queue[i]), queue, i + 1)

\* flushStartQueue()
flushStartQueue(w) ==
    [startEach(w, w.startQueue, 1) EXCEPT !.startQueue = <<>>]

----------------------------------------------------------------------------
(* SpringValue: public methods *)

\* (history) a method other than pause, resume and advance is called on k
Other(w, k) == [w EXCEPT !.ran[k].course = "other"]

\* (history) pause or resume is called on k
Held(w, k) == [w EXCEPT !.ran[k].course = IF @ = "other" THEN @ ELSE "held"]

\* SpringValue.stop(cancel), the body of its if
stop_flush(w, k, cancel) ==
    flushPendingResolvers([w EXCEPT !.sv[k].animating = FALSE], k,
                          Result(w.sv[k].value, Some(~cancel), Some(cancel), None))

\* A stop that forgets the pending completions.
stop_unsettled(w, k, cancel) ==
    IF w.sv[k].animating
    THEN [Other(w, k) EXCEPT !.sv[k].animating = FALSE]
    ELSE Other(w, k)

\* A stop that does not look at the animating flag.
stop_unguarded(w, k, cancel) == stop_flush(Other(w, k), k, cancel)

\* SpringValue.stop(cancel)
SpringValue_stop(w, k, cancel) ==
    IF w.sv[k].animating
    THEN stop_flush(Other(w, k), k, cancel)
    ELSE Other(w, k)

\* SpringValue.start: new Promise((resolve) => ...)
start_promise(w, k) == [Other(w, k) EXCEPT !.results = Append(@, NewResult(k))]

\* A start that merges the given config into the one in force.
start_config_merge(w, k, props) ==
    IF props.config # None
    THEN [w EXCEPT !.sv[k].config =
            [tension      |-> Coalesce(Get(props.config).tension, @.tension),
             friction     |-> Coalesce(Get(props.config).friction, @.friction),
             mass         |-> Coalesce(Get(props.config).mass, @.mass),
             velocity     |-> Coalesce(Get(props.config).velocity, @.velocity),
             precision    |-> Coalesce(Get(props.config).precision, @.precision),
             clamp        |-> Coalesce(Get(props.config).clamp, @.clamp),
             easing       |-> Coalesce(Get(props.config).easing, @.easing),
             duration     |-> IF Get(props.config).duration = None
                              THEN @.duration ELSE Get(props.config).duration,
             decay        |-> Get(props.config).decay,
             bounce       |-> Get(props.config).bounce,
             round        |-> Get(props.config).round,
             restVelocity |-> Get(props.config).restVelocity,
             progress     |-> Get(props.config).progress]]
    ELSE w

\* SpringValue.start: Update config if provided
start_config(w, k, props) ==
    IF props.config # None
    THEN [w EXCEPT !.sv[k].config = mergeConfig(Get(props.config))]
    ELSE w

\* SpringValue.start: Update from value
start_from(w, k, props) ==
    IF props.from # None
    THEN setValue([w EXCEPT !.sv[k].from = Get(props.from)], k, Get(props.from))
    ELSE w

\* SpringValue.start: Update to value
start_to(w, k, props) ==
    IF props.to # None
    THEN [w EXCEPT !.sv[k].to = Get(props.to)]
    ELSE w

\* SpringValue.start: Immediate mode, after the value jumped to the target
start_settle(w, k, r) ==
    resolve([w EXCEPT !.sv[k].animating = FALSE], r,
            Result(w.sv[k].value, Some(TRUE), None, None))

\* An immediate start that settles without jumping.
start_immediate_still(w, k, r) == start_settle(w, k, r)

\* SpringValue.start: Immediate mode - jump to target
start_immediate(w, k, r) == start_settle(setValue(w, k, w.sv[k].to), k, r)

\* SpringValue.start: no need to animate
start_noop(w, k, r) == resolve(w, r, Result(w.sv[k].value, Some(TRUE), None, Some(TRUE)))

\* SpringValue.start: this._animating = true; this._pendingResolvers.push(resolve)
start_mark(w, k, r) ==
    [w EXCEPT !.sv[k].animating = TRUE,
              !.sv[k].pendingResolvers = Append(@, r),
              !.ran[k] = [t |-> 0, course |-> "ticks"]]

\* An animated start that does not call the frame loop.
start_unregistered(w, k, r) == start_mark(resetNodes(w, k), k, r)

\* A start that also resumes the Value.
start_animate_resumed(w, k, r) ==
    frameLoop_start(start_mark(resetNodes([w EXCEPT !.sv[k].paused = FALSE], k), k, r), k)

\* SpringValue.start: Reset animation state, Start the frame loop
start_animate(w, k, r) == frameLoop_start(start_mark(resetNodes(w, k), k, r), k)

\* A start without the check for a value already at its goal.
start_run_eager(w, k, props, r) ==
    IF Truthy(props.immediate) THEN start_immediate(w, k, r)
    ELSE start_animate(w, k, r)

\* SpringValue.start: the three ways out, for promise r
start_run(w, k, props, r) ==
    IF Truthy(props.immediate) THEN start_immediate(w, k, r)
    ELSE IF isEqual(w.sv[k].value, w.sv[k].to) THEN start_noop(w, k, r)
    ELSE start_animate(w, k, r)

\* SpringValue.start(props); props = [to, from, config, immediate], each optional.
SpringValue_start(w, k, props) ==
    start_run(start_to(start_from(start_config(start_promise(w, k), k, props),
                                  k, props), k, props),
              k, props, Len(w.results) + 1)

\* SpringValue.set(value), after this.stop()
set_value(w, k, value) ==
    setValue([w EXCEPT !.sv[k].to = value, !.sv[k].from = value], k, value)

\* A set that does not stop the animation in flight.
set_running(w, k, value) == set_value(Other(w, k), k, value)

\* SpringValue.set(value)
SpringValue_set(w, k, value) == set_value(SpringValue_stop(w, k, FALSE), k, value)

\* SpringValue.pause()
SpringValue_pause(w, k) == [Held(w, k) EXCEPT !.sv[k].paused = TRUE]

\* SpringValue.resume(), after this._paused = false
resume_start(w, k) == IF w.sv[k].animating THEN frameLoop_start(w, k) ELSE w

\* A resume that starts the nodes over.
resume_reset(w, k) ==
    resume_start(resetNodes([Held(w, k) EXCEPT !.sv[k].paused = FALSE], k), k)

\* SpringValue.resume()
SpringValue_resume(w, k) == resume_start([Held(w, k) EXCEPT !.sv[k].paused = FALSE], k)

\* A finish that stops where the Value is.
finish_still(w, k) == SpringValue_stop(w, k, FALSE)

\* SpringValue.finish()
SpringValue_finish(w, k) ==
    IF w.sv[k].animating
    THEN SpringValue_stop(setValue(w, k, w.sv[k].to), k, FALSE)
    ELSE Other(w, k)

----------------------------------------------------------------------------
(* SpringValue.advance *)

\* Math.round(x / q) * q for q > 0 (Math.round rounds halves up).
roundTo(x, q) == ((2 * x + q) \div (2 * q)) * q

\* config.easing(p) * (to - from) for the fraction p = n/d; the easings of
\* the model's configurations are linear.
eased(easing, p, span) ==
    CASE easing = "linear" -> (p.n * span) \div p.d

\* A progress that lags one millisecond behind the elapsed time.
durationProgress_late(config, elapsed, memo) ==
    IF Get(config.duration) > 0
    THEN [n |-> Max(0, Min(memo, elapsed - 1)), d |-> memo]
    ELSE [n |-> 1, d |-> 1]

\* The duration rule, once elapsedTime and the memoized duration are settled:
\* p = (config.progress || 0) + elapsedTime / memoizedDuration, clamped.
durationProgress(config, elapsed, memo) ==
    IF Get(config.duration) > 0
    THEN [n |-> Max(0, Min(memo, Coalesce(config.progress, 0) * memo + elapsed)),
          d |-> memo]
    ELSE [n |-> 1, d |-> 1]

\* The duration rule: position, velocity and finished from the progress p.
durationStep(config, node, memo, from, to, dt, elapsed, p) ==
    [node     |-> [node EXCEPT !.elapsedTime = elapsed,
                               !.durationProgress =
                                   IF Get(config.duration) > 0 THEN p ELSE @],
     memo     |-> memo,
     position |-> from + eased(config.easing, p, to - from),
     velocity |-> (from + eased(config.easing, p, to - from) - node.lastPosition) \div dt,
     finished |-> p.n >= p.d]

\* The duration rule with elapsedTime and this._memoizedDuration updated.
durationAt(config, node, memo, from, to, dt, elapsed) ==
    durationStep(config, node, memo, from, to, dt, elapsed,
                 durationProgress(config, elapsed, memo))

\* The duration rule (config.duration !== undefined) for one node whose
\* elapsedTime was already advanced by dt: a changed duration is memoized and
\* elapsedTime rescaled to the cached progress.
durationRule(config, node, memo, from, to, dt) ==
    IF Get(config.duration) > 0 /\ memo # Get(config.duration)
    THEN durationAt(config, node, Get(config.duration), from, to, dt,
                    IF node.durationProgress.n > 0
                    THEN (Get(config.duration) * node.durationProgress.n)
                            \div node.durationProgress.d
                    ELSE node.elapsedTime)
    ELSE durationAt(config, node, memo, from, to, dt, node.elapsedTime)

Abs(x) == IF x < 0 THEN -x ELSE x

\* advance: the precision for determining "at rest", in units of 0.001:
\* config.precision || (from === to ? 0.005 : Math.min(1, |to - from| * 0.001))
restPrecision(config, from, to) ==
    IF config.precision # 0 THEN config.precision
    ELSE IF from = to THEN 5 ELSE Min(1000, Abs(to - from))

\* if (config.decay): the configurations of the model give decay as a boolean
decaying(config) == Truthy(config.decay)

\* config.decay === true ? 0.998 : config.decay, in units of 0.001
decayOf(config) == IF Truthy(config.decay) THEN 998 ELSE 0

\* Math.exp(-m * 0.001) in units of 0.000001, for the small m of the model
\* (exact to the unit up to m = 18).
expNeg(m) == 1000000 - 1000 * m + (m * m) \div 2

\* The decay rule: position = from + (v0 / (1 - decay)) * (1 - e), on the
\* model's grid of whole units, for e = Math.exp(-(1 - decay) * elapsed)
decayAt(config, node, from, e) ==
    from + (Get(node.v0) * 1000 * (1000000 - e)) \div ((1000 - decayOf(config)) * 1000000)

\* The decay rule (else if (config.decay)): position, finished, velocity
decayRule(config, node, memo, from, to, dt) ==
    [node     |-> node,
     memo     |-> memo,
     position |-> decayAt(config, node, from,
                          expNeg((1000 - decayOf(config)) * node.elapsedTime)),
     velocity |-> (Get(node.v0) * expNeg((1000 - decayOf(config)) * node.elapsedTime))
                     \div 1000000,
     finished |-> 1000 * Abs(node.lastPosition
                             - decayAt(config, node, from,
                                       expNeg((1000 - decayOf(config)) * node.elapsedTime)))
                     <= restPrecision(config, from, to)]

\* The spring rule: config.restVelocity || precision / 10, ten-thousandths
restVelocity(config, from, to) ==
    IF config.restVelocity # None /\ Get(config.restVelocity) # 0
    THEN 10 * Get(config.restVelocity)
    ELSE restPrecision(config, from, to)

\* The spring rule: config.clamp ? 0 : (config.bounce ?? 0)
bounceFactor(config) == IF config.clamp THEN 0 ELSE Coalesce(config.bounce, 0)

\* One 1 ms step of the spring: if (canBounce) { if (isBouncing) ... }
springBounce(config, node, from, to, st) ==
    IF /\ bounceFactor(config) > 0
       /\ \/ st.position = to
          \/ (st.position > to) = (IF from = to THEN Get(node.v0) > 0 ELSE from < to)
    THEN [st EXCEPT !.velocity = (-st.velocity) * bounceFactor(config), !.position = to]
    ELSE st

\* One 1 ms step of the spring: the forces.  (springForce + dampingForce) /
\* mass is a whole number for the springs of the model.
springAccel(config, to, st) ==
    (-(config.tension * (st.position - to) + 1000 * config.friction * st.velocity))
        \div (1000000 * config.mass)

\* One 1 ms step of the spring after the bounce: velocity, then position.
springStep(config, to, st) ==
    [st EXCEPT !.velocity = st.velocity + springAccel(config, to, st),
               !.position = st.position + st.velocity + springAccel(config, to, st)]

\* The spring rule: for (let n = 0; n < numSteps; n++) { ... }
RECURSIVE springLoop(_, _, _, _, _, _)
springLoop(config, node, from, to, st, n) ==
    IF n = 0 THEN st
    ELSE IF /\ 10000 * Abs(st.velocity) <= restVelocity(config, from, to)
            /\ 1000 * Abs(to - st.position) <= restPrecision(config, from, to)
    THEN [st EXCEPT !.finished = TRUE]
    ELSE springLoop(config, node, from, to,
                    springStep(config, to, springBounce(config, node, from, to, st)), n - 1)

\* The springs whose 1 ms steps are whole: tension * 0.000001 and
\* friction * 0.001 are whole numbers.
WholeSpring(config) == config.tension % 1000000 = 0 /\ config.friction % 1000 = 0

\* a / b for b > 0, rounded to the nearest whole number.
RoundDiv(a, b) == (a \div b) + (IF 2 * (a % b) >= b THEN 1 ELSE 0)

\* The other springs are computed in fixed point: a position x is the whole
\* number 1000000 x and a velocity v (per ms) the whole number 100000000 v.
\* -config.tension * 0.000001 * (position - to), as a velocity per ms
fixedSpringForce(config, to, st) ==
    -(config.tension * ((st.position - to) \div 10000)
      + RoundDiv(config.tension * ((st.position - to) % 10000), 10000))

\* -config.friction * 0.001 * velocity
fixedDampingForce(config, st) == -RoundDiv(config.friction * st.velocity, 1000)

\* An acceleration without the damping force.
fixedAccel_undamped(config, to, st) ==
    RoundDiv(fixedSpringForce(config, to, st), config.mass)

\* (springForce + dampingForce) / config.mass
fixedAccel(config, to, st) ==
    RoundDiv(fixedSpringForce(config, to, st) + fixedDampingForce(config, st), config.mass)

\* One 1 ms step in fixed point: velocity, then position.
fixedStep(config, to, st) ==
    [st EXCEPT !.velocity = st.velocity + fixedAccel(config, to, st),
               !.position = st.position
                            + RoundDiv(st.velocity + fixedAccel(config, to, st), 100)]

\* The loop of the spring rule in fixed point: restVelocity (ten-thousandths
\* per ms) and precision (thousandths) on the grids of velocity and position.
RECURSIVE fixedLoop(_, _, _, _, _, _)
fixedLoop(config, node, from, to, st, n) ==
    IF n = 0 THEN st
    ELSE IF /\ Abs(st.velocity) <= 10000 * restVelocity(config, from, to)
            /\ Abs(to - st.position) <= 1000 * restPrecision(config, from, to)
    THEN [st EXCEPT !.finished = TRUE]
    ELSE fixedLoop(config, node, from, to,
                   fixedStep(config, to, springBounce(config, node, from, to, st)), n - 1)

\* The spring rule (else): starts from node.velocity and node.lastPosition
\* and takes Math.ceil(dt / 1) steps.
springRule(config, node, memo, from, to, dt) ==
    IF WholeSpring(config)
    THEN springLoop(config, node, from, to,
                    [node |-> node, memo |-> memo, position |-> node.lastPosition,
                     velocity |-> node.velocity, finished |-> FALSE],
                    dt)
    ELSE fixedLoop(config, node, from, to,
                   [node |-> node, memo |-> memo, position |-> node.lastPosition,
                    velocity |-> node.velocity, finished |-> FALSE],
                   dt)

\* A choice of rule that looks at decay first.
stepRule_decayFirst(config, node, memo, from, to, dt) ==
    IF decaying(config) THEN decayRule(config, node, memo, from, to, dt)
    ELSE IF config.duration # None THEN durationRule(config, node, memo, from, to, dt)
    ELSE springRule(config, node, memo, from, to, dt)

\* The stepping rule of the configuration: duration, else decay, else spring.
stepRule(config, node, memo, from, to, dt) ==
    IF config.duration # None THEN durationRule(config, node, memo, from, to, dt)
    ELSE IF decaying(config) THEN decayRule(config, node, memo, from, to, dt)
    ELSE springRule(config, node, memo, from, to, dt)

\* The stepping rule has a NaN among the operands of its position: from or
\* to in duration mode (from + easing(p) * (to - from)), from in decay mode,
\* and in spring mode the position and velocity it starts from or the goal it
\* pulls to.
computesNaN(config, node, from, to) ==
    IF config.duration # None THEN from = NaN \/ to = NaN
    ELSE IF decaying(config) THEN from = NaN
    ELSE node.lastPosition = NaN \/ node.velocity = NaN \/ to = NaN

\* The stepping rule on such operands: position and velocity are NaN;
\* finished is p >= 1 in duration mode and the false of a comparison with NaN
\* in the other modes.
nanRule(config, node, memo, from, to, dt) ==
    IF config.duration # None
    THEN [durationRule(config, node, memo, 0, 0, dt) EXCEPT
            !.position = NaN, !.velocity = NaN]
    ELSE [node |-> node, memo |-> memo, position |-> NaN, velocity |-> NaN,
          finished |-> FALSE]

\* The stepping rule in IEEE arithmetic.
ruleStep(config, node, memo, from, to, dt) ==
    IF computesNaN(config, node, from, to)
    THEN nanRule(config, node, memo, from, to, dt)
    ELSE stepRule(config, node, memo, from, to, dt)

\* A rounding that leaves a finished node at the goal.
node_round_moving(config, acc, i, step, node) ==
    [nodes   |-> [acc.nodes EXCEPT ![i] =
                    IF config.round # None /\ Get(config.round) # 0 /\ ~step.finished
                    THEN [node EXCEPT !.position = roundTo(@, Get(config.round))]
                    ELSE node],
     memo    |-> step.memo,
     allDone |-> acc.allDone /\ step.finished,
     changed |-> acc.changed \/ node.position # node.lastPosition \/ node.position = NaN]

\* advance, end of the loop body: rounding, and the loop's variables.
\* (NaN !== x for every x; Math.round(NaN / q) * q is NaN.)
node_round(config, acc, i, step, node) ==
    [nodes   |-> [acc.nodes EXCEPT ![i] =
                    IF config.round # None /\ Get(config.round) # 0 /\ node.position # NaN
                    THEN [node EXCEPT !.position = roundTo(@, Get(config.round))]
                    ELSE node],
     memo    |-> step.memo,
     allDone |-> acc.allDone /\ step.finished,
     changed |-> acc.changed \/ node.position # node.lastPosition \/ node.position = NaN]

\* advance, loop body: if (finished) { node.done = true; node.position = to }
node_finish(config, acc, i, step, node, to) ==
    node_round(config, acc, i, step,
               IF step.finished
               THEN [node EXCEPT !.done = TRUE, !.position = to]
               ELSE node)

\* A loop body without the NaN test.
node_step_blind(config, acc, i, step, to) ==
    node_finish(config, acc, i, step,
                [step.node EXCEPT !.velocity = step.velocity,
                                  !.lastPosition = acc.nodes[i].position,
                                  !.position = step.position],
                to)

\* advance, loop body: the node takes the step's velocity and position;
\* if (Number.isNaN(position)) finished = true
node_step(config, acc, i, step, to) ==
    node_finish(config, acc, i, [step EXCEPT !.finished = @ \/ step.position = NaN],
                [step.node EXCEPT !.velocity = step.velocity,
                                  !.lastPosition = acc.nodes[i].position,
                                  !.position = step.position],
                to)

\* A loop body without the tension test.
advanceNode_tense(s, acc, i, dt) ==
    IF acc.nodes[i].done THEN acc
    ELSE node_step(s.config, acc, i,
                   ruleStep(s.config,
                            [acc.nodes[i] EXCEPT
                                !.elapsedTime = @ + dt,
                                !.v0 = IF @ = None THEN Some(s.config.velocity) ELSE @],
                            acc.memo, s.from[i], s.to[i], dt),
                   s.to[i])

\* The body of the loop of advance for node i.  acc carries the loop's
\* variables: nodes, memo (this._memoizedDuration), allDone and changed.
advanceNode(s, acc, i, dt) ==
    IF acc.nodes[i].done THEN acc
    ELSE IF s.config.tension <= 0
    THEN \* Skip animation if tension is zero
         [acc EXCEPT !.nodes[i].done = TRUE]
    ELSE node_step(s.config, acc, i,
                   ruleStep(s.config,
                            [acc.nodes[i] EXCEPT
                                !.elapsedTime = @ + dt,
                                !.v0 = IF @ = None THEN Some(s.config.velocity) ELSE @],
                            acc.memo, s.from[i], s.to[i], dt),
                   s.to[i])

RECURSIVE advanceNodes(_, _, _, _)
advanceNodes(s, acc, i, dt) ==
    IF i > Len(acc.nodes) THEN acc
    ELSE advanceNodes(s, advanceNode(s, acc, i, dt), i + 1, dt)

\* advance: Check if animation is complete
advance_complete(w, k, acc) ==
    IF acc.allDone
    THEN flushPendingResolvers(
            Emit([w EXCEPT !.sv[k].animating = FALSE], Event("rest", k, 0, w.sv[k].value)),
            k, Result(w.sv[k].value, Some(TRUE), None, None))
    ELSE w

\* An advance that completes before it publishes the value.
advance_update_late(w, k, acc) ==
    IF acc.changed \/ acc.allDone
    THEN updateValueFromNodes(advance_complete(w, k, acc), k)
    ELSE advance_complete(w, k, acc)

\* advance: Update the value
advance_update(w, k, acc) ==
    advance_complete(IF acc.changed \/ acc.allDone THEN updateValueFromNodes(w, k) ELSE w,
                     k, acc)

\* advance: the loop over the nodes is done
advance_nodes(w, k, dt, acc) ==
    advance_update([w EXCEPT !.sv[k].nodes = acc.nodes,
                             !.sv[k].memoizedDuration = acc.memo],
                   k, acc)

\* An advance that does not look at the paused flag.
advance_heedless(w, k, dt) ==
    IF ~w.sv[k].animating THEN w
    ELSE advance_nodes(w, k, dt,
            advanceNodes(w.sv[k],
                         [nodes |-> w.sv[k].nodes, memo |-> w.sv[k].memoizedDuration,
                          allDone |-> TRUE, changed |-> FALSE],
                         1, dt))

\* SpringValue.advance(dt)
SpringValue_advance(w, k, dt) ==
    IF w.sv[k].paused \/ ~w.sv[k].animating THEN w
    ELSE advance_nodes(w, k, dt,
            advanceNodes(w.sv[k],
                         [nodes |-> w.sv[k].nodes, memo |-> w.sv[k].memoizedDuration,
                          allDone |-> TRUE, changed |-> FALSE],
                         1, dt))

----------------------------------------------------------------------------
(* frameLoop.advance *)

RECURSIVE advanceFrom(_, _, _, _)

\* advance(dt), loop body after animation.advance(dt): retain it if not idle
advance_retain(w, i, nextFrame, dt, animation) ==
    advanceFrom(w, i + 1,
                IF ~idle(w.sv[animation]) THEN Append(nextFrame, animation) ELSE nextFrame,
                dt)

\* advance(dt), loop body after priority = animation.priority
advance_turn(w, i, nextFrame, dt, animation) ==
    IF ~idle(w.sv[animation])
    THEN advance_retain(
            SpringValue_advance(Emit(w, Event("advance", animation, 0, <<>>)), animation, dt),
            i, nextFrame, dt, animation)
    ELSE advanceFrom(w, i + 1, nextFrame, dt)

\* The loop of advance(dt) from index i on; nextFrame is the list being
\* filled (the emptied prevFrame array).
advanceFrom(w, i, nextFrame, dt) ==
    IF i > Len(w.currentFrame)
    THEN [w EXCEPT !.priority = 0, !.currentFrame = nextFrame]
    ELSE advance_turn([w EXCEPT !.priority = w.sv[w.currentFrame[i]].priority],
                      i, nextFrame, dt, w.currentFrame[i])

\* frameLoop.advance(dt), run with no observer that calls back into the library
frameLoop_advance(w, dt) == advanceFrom(w, 1, <<>>, dt)

----------------------------------------------------------------------------
(* frameLoop.advance turn by turn, and frameLoop.sort *)

\* advance(dt): const nextFrame = prevFrame; i = 0
advance_begin(w, dt) ==
    [w EXCEPT !.loop = [@ EXCEPT !.inTick = TRUE, !.i = 1, !.dt = dt, !.nextFrame = <<>>,
                                 !.turns = <<>>, !.skipped = {}]]

\* animation.advance(dt) up to "Update the value": the observers of a changed
\* value run before the animation is completed.
advance_publish(w, k, acc, before) ==
    [(IF acc.changed \/ acc.allDone THEN updateValueFromNodes(w, k) ELSE w)
     EXCEPT !.loop.allDone = acc.allDone,
            !.loop.window =
                /\ acc.changed \/ acc.allDone
                /\ ~isEqual(before, [i \in 1..Len(acc.nodes) |-> acc.nodes[i].position])]

\* advance(dt), loop body: priority = animation.priority;
\* if (!animation.idle) animation.advance(dt) ...
advance_enter(w, animation) ==
    IF idle(w.sv[animation])
    THEN [w EXCEPT !.priority = w.sv[animation].priority,
                   !.loop.i = @ + 1,
                   !.loop.skipped = @ \cup {animation}]
    ELSE advance_publish(
            [Emit(w, Event("advance", animation, 0, <<>>)) EXCEPT
                !.priority = w.sv[animation].priority,
                !.loop.animation = animation,
                !.sv[animation].nodes =
                    advanceNodes(w.sv[animation],
                                 [nodes |-> w.sv[animation].nodes,
                                  memo |-> w.sv[animation].memoizedDuration,
                                  allDone |-> TRUE, changed |-> FALSE],
                                 1, w.loop.dt).nodes,
                !.sv[animation].memoizedDuration =
                    advanceNodes(w.sv[animation],
                                 [nodes |-> w.sv[animation].nodes,
                                  memo |-> w.sv[animation].memoizedDuration,
                                  allDone |-> TRUE, changed |-> FALSE],
                                 1, w.loop.dt).memo],
            animation,
            advanceNodes(w.sv[animation],
                         [nodes |-> w.sv[animation].nodes,
                          memo |-> w.sv[animation].memoizedDuration,
                          allDone |-> TRUE, changed |-> FALSE],
                         1, w.loop.dt),
            w.sv[animation].value)

\* A loop body that keeps every handle it advanced.
advance_keep(w, animation) ==
    [w EXCEPT !.loop.nextFrame = Append(@, animation),
              !.loop.i = @ + 1,
              !.loop.animation = "",
              !.loop.window = FALSE,
              !.loop.allDone = FALSE]

\* advance(dt), loop body: if (!animation.idle) nextFrame.push(animation); i++
advance_push(w, animation) ==
    [w EXCEPT !.loop.nextFrame = IF ~idle(w.sv[animation]) THEN Append(@, animation) ELSE @,
              !.loop.i = @ + 1,
              !.loop.animation = "",
              !.loop.window = FALSE,
              !.loop.allDone = FALSE]

\* The rest of animation.advance(dt) ("Check if animation is complete"), then
\* the rest of the loop body.
advance_leave(w, animation) ==
    advance_push(advance_complete(w, animation, [allDone |-> w.loop.allDone]), animation)

\* advance(dt) after the loop: priority = 0; currentFrame = nextFrame;
\* return currentFrame.length > 0
advance_end(w) ==
    [w EXCEPT !.priority = 0,
              !.currentFrame = w.loop.nextFrame,
              !.loop.inTick = FALSE,
              !.loop.i = 0,
              !.loop.nextFrame = <<>>,
              !.loop.returned = Len(w.loop.nextFrame) > 0]

\* currentFrame.indexOf(animation), 1-based, for an animation in the list
indexOf(arr, animation) ==
    CHOOSE i \in 1..Len(arr) : arr[i] = animation /\ \A j \in 1..(i - 1) : arr[j] # animation

\* arr.splice(i, 1), 1-based
RemoveAt(arr, i) == SubSeq(arr, 1, i - 1) \o SubSeq(arr, i + 1, Len(arr))

\* A sort that defers whenever a tick is in progress.
sort_inTick(w, animation) ==
    IF w.loop.inTick
    THEN [w EXCEPT !.loop.onFrame = Append(@, animation)]
    ELSE IF animation \in Range(w.currentFrame)
    THEN startUnsafely([w EXCEPT !.currentFrame = RemoveAt(@, indexOf(@, animation))],
                       animation)
    ELSE w

\* frameLoop.sort(animation); raf.onFrame queues the deferred call.
frameLoop_sort(w, animation) ==
    IF w.priority # 0
    THEN [w EXCEPT !.loop.onFrame = Append(@, animation)]
    ELSE IF animation \in Range(w.currentFrame)
    THEN startUnsafely([w EXCEPT !.currentFrame = RemoveAt(@, indexOf(@, animation))],
                       animation)
    ELSE w

\* The host runs the callbacks queued by raf.onFrame: () => frameLoop.sort(animation)
RECURSIVE sortEach(_, _, _)
sortEach(w, queue, i) ==
    IF i > Len(queue) THEN w
    ELSE sortEach(frameLoop_sort(w, queue[i]), queue, i + 1)

----------------------------------------------------------------------------
(* The SpringRef returned by spring(): the controller of one SpringValue per key *)

\* The props object of a call that passes nothing.
NoProps == [to |-> None, from |-> None, config |-> None, immediate |-> None]

\* const keys = Object.keys(getters)
keys == <<"a", "b">>

\* springRef.start: the startProps built for one key.  props.to and
\* props.from map keys to optional values; props.config and props.immediate
\* are single optional values.
springRef_startProps(props, key) ==
    [to |-> props.to[key], from |-> props.from[key],
     config |-> props.config, immediate |-> props.immediate]

\* springRef.start: const results = await Promise.all(promises).  The
\* aggregate is a record of the promises awaited; `stopped` is history.
springRef_await(w, promises) ==
    [w EXCEPT !.ctl = Append(@, [promises |-> promises, state |-> "pending",
                                 finished |-> FALSE, cancelled |-> FALSE,
                                 stopped |-> FALSE])]

\* A TypeError is thrown in the handler: a method is called on the undefined
\* that springValues.get(key) returns for a key the map does not hold.
Throw(w, key) == Emit(w, Event("throw", key, 0, <<>>))

\* springRef.start throws before its await: the promise it returned is rejected.
springRef_reject(w, key, promises) ==
    [Throw(w, key) EXCEPT !.ctl = Append(@, [promises |-> promises, state |-> "rejected",
                                             finished |-> FALSE, cancelled |-> FALSE,
                                             stopped |-> FALSE])]

RECURSIVE springRef_dispatch(_, _, _, _)

\* A dispatch that calls start for every key.
springRef_key_all(w, i, props, promises, startProps) ==
    IF keys[i] \in w.owned
    THEN springRef_dispatch(SpringValue_start(w, keys[i], startProps), i + 1, props,
                            Append(promises, Len(w.results) + 1))
    ELSE springRef_reject(w, keys[i], promises)

\* springRef.start: const sv = springValues.get(key)!; ...
\* if (Object.keys(startProps).length > 0) promises.push(sv.start(startProps))
springRef_key(w, i, props, promises, startProps) ==
    IF startProps # NoProps
    THEN IF keys[i] \in w.owned
         THEN springRef_dispatch(SpringValue_start(w, keys[i], startProps), i + 1, props,
                                 Append(promises, Len(w.results) + 1))
         ELSE springRef_reject(w, keys[i], promises)
    ELSE springRef_dispatch(w, i + 1, props, promises)

\* springRef.start: for (const key of keys), from the i-th key on
springRef_dispatch(w, i, props, promises) ==
    IF i > Len(keys) THEN springRef_await(w, promises)
    ELSE springRef_key(w, i, props, promises, springRef_startProps(props, keys[i]))

\* springRef.start(props), up to the await
springRef_start(w, props) == springRef_dispatch(w, 1, props, <<>>)

\* A Promise.all that is fulfilled as soon as one of its promises is.
SomeSettled(w, j) ==
    \E i \in 1..Len(w.ctl[j].promises) : w.results[w.ctl[j].promises[i]].state = "settled"

\* Promise.all(promises) is fulfilled: all the promises of aggregate j are.
AllSettled(w, j) ==
    \A i \in 1..Len(w.ctl[j].promises) : w.results[w.ctl[j].promises[i]].state = "settled"

\* results.every((r) => r.finished)
every_finished(w, promises) ==
    \A i \in 1..Len(promises) : Truthy(w.results[promises[i]].finished)

\* results.some((r) => r.cancelled)
some_cancelled(w, promises) ==
    \E i \in 1..Len(promises) : Truthy(w.results[promises[i]].cancelled)

\* springRef.get(key): springValues.get(key)!.get()
springRef_get(w, key) == IF key \in w.owned THEN w ELSE Throw(w, key)

\* springRef.getAll(): for (const key of keys) result[key] = springValues.get(key)!.get()
springRef_getAll(w) ==
    IF \A i \in 1..Len(keys) : keys[i] \in w.owned
    THEN w
    ELSE Throw(w, keys[CHOOSE i \in 1..Len(keys) :
                        /\ keys[i] \notin w.owned
                        /\ \A j \in 1..(i - 1) : keys[j] \in w.owned])

\* springRef.start: the return after the await, for aggregate j; value:
\* this.getAll() throws when the map no longer holds the keys.
springRef_return(w, j) ==
    IF \A i \in 1..Len(keys) : keys[i] \in w.owned
    THEN [w EXCEPT !.ctl[j].state = "settled",
                   !.ctl[j].finished = every_finished(w, w.ctl[j].promises),
                   !.ctl[j].cancelled = some_cancelled(w, w.ctl[j].promises)]
    ELSE [springRef_getAll(w) EXCEPT !.ctl[j].state = "rejected"]

\* spring(): the effect of a key whose getter now returns newGoal, in a
\* spring() called with options.config = TimedConfig and without immediate.
effect_run(w, key, newGoal) ==
    SpringValue_start(w, key, [NoProps EXCEPT !.to = Some(newGoal),
                                              !.config = Some(TimedConfig)])

RECURSIVE stopEach(_, _, _, _)

\* stopKeys.forEach((key) => springValues.get(key)?.stop(cancel)), from the i-th on
stopEach(w, ks, i, cancel) ==
    IF i > Len(ks) THEN w
    ELSE stopEach(IF ks[i] \in w.owned THEN SpringValue_stop(w, ks[i], cancel) ELSE w,
                  ks, i + 1, cancel)

\* springRef.stop(cancel)
springRef_stop(w, cancel) == stopEach(w, keys, 1, cancel)

\* springRef.stopKeys(stopKeys, cancel)
springRef_stopKeys(w, ks, cancel) == stopEach(w, ks, 1, cancel)

RECURSIVE finishEach(_, _)

\* springValues.forEach((sv) => sv.finish()), from the i-th key on
finishEach(w, i) ==
    IF i > Len(keys) THEN w
    ELSE finishEach(IF keys[i] \in w.owned THEN SpringValue_finish(w, keys[i]) ELSE w, i + 1)

RECURSIVE pauseEach(_, _, _)

\* A pauseKeys that pauses every Value once it is given a key.
pauseEach_all(w, ks, i) ==
    IF i > Len(ks) THEN w
    ELSE pauseEach(SpringValue_pause(SpringValue_pause(w, "a"), "b"), ks, i + 1)

\* pauseKeys.forEach((key) => springValues.get(key)?.pause()), from the i-th on
pauseEach(w, ks, i) ==
    IF i > Len(ks) THEN w
    ELSE pauseEach(IF ks[i] \in w.owned THEN SpringValue_pause(w, ks[i]) ELSE w, ks, i + 1)

\* springRef.pause()
springRef_pause(w) == pauseEach(w, keys, 1)

\* springRef.pauseKeys(pauseKeys)
springRef_pauseKeys(w, ks) == pauseEach(w, ks, 1)

RECURSIVE resumeEach(_, _, _)

\* resumeKeys.forEach((key) => springValues.get(key)?.resume()), from the i-th on
resumeEach(w, ks, i) ==
    IF i > Len(ks) THEN w
    ELSE resumeEach(IF ks[i] \in w.owned THEN SpringValue_resume(w, ks[i]) ELSE w, ks, i + 1)

\* springRef.resume()
springRef_resume(w) == resumeEach(w, keys, 1)

\* springRef.resumeKeys(resumeKeys)
springRef_resumeKeys(w, ks) == resumeEach(w, ks, 1)

\* destroyRef.onDestroy: springValues.forEach((sv) => sv.stop()); springValues.clear()
onDestroy(w) == [stopEach(w, keys, 1, FALSE) EXCEPT !.owned = {}]

\* springRef.finish()
springRef_finish(w) == finishEach(w, 1)

\* (history) stopKeys(ks, true) is called: mark the aggregates that have a
\* promise pending on one of the keys ks.
MarkStopped(w, ks, cancel) ==
    [w EXCEPT !.ctl = [j \in 1..Len(w.ctl) |->
        IF /\ cancel
           /\ \E i \in 1..Len(w.ctl[j].promises) :
                /\ w.results[w.ctl[j].promises[i]].k \in Range(ks)
                /\ w.results[w.ctl[j].promises[i]].state = "pending"
        THEN [w.ctl[j] EXCEPT !.stopped = TRUE]
        ELSE w.ctl[j]]]

----------------------------------------------------------------------------
(* Actions of a single SpringValue and the frame loop *)

World ==
    [sv |-> sv, results |-> results, startQueue |-> startQueue,
     currentFrame |-> currentFrame, priority |-> priority, ctl |-> ctl,
     ran |-> ran, ev |-> <<>>, loop |-> loop, owned |-> owned]

\* What the history variable records of a handler.
Call(op, k) ==
    [op |-> op, k |-> k, keys |-> {}, cancel |-> FALSE, props |-> NoProps,
     dt |-> 0, ev |-> <<>>]

\* (history) dt passes for the keys K
Due(w, K, dt) ==
    [w EXCEPT !.ran = [k \in Keys |->
        IF k \in K /\ w.sv[k].animating /\ ~w.sv[k].paused
        THEN [w.ran[k] EXCEPT !.t = @ + dt]
        ELSE w.ran[k]]]

Commit(w, call) ==
    /\ sv' = w.sv
    /\ results' = w.results
    /\ startQueue' = w.startQueue
    /\ currentFrame' = w.currentFrame
    /\ priority' = w.priority
    /\ ctl' = w.ctl
    /\ ran' = w.ran
    /\ last' = [call EXCEPT !.ev = w.ev]
    /\ loop' = w.loop
    /\ owned' = w.owned

Opt(S) == {None} \cup {Some(x) : x \in S}

\* The props a caller passes to SpringValue.start.
StartProps ==
    [to : Opt(Vals), from : Opt(Vals), config : Opt(Configs), immediate : Opt({TRUE})]

Start(k, props) ==
    /\ Len(results) < MaxStarts
    /\ Commit(SpringValue_start(World, k, props), [Call("start", k) EXCEPT !.props = props])

Set(k, value) ==
    /\ Commit(SpringValue_set(World, k, value),
              [Call("set", k) EXCEPT !.props.to = Some(value)])

Stop(k, cancel) ==
    /\ Commit(SpringValue_stop(World, k, cancel),
              [Call("stop", k) EXCEPT !.cancel = cancel])

Pause(k) ==
    /\ Commit(SpringValue_pause(World, k), Call("pause", k))

Resume(k) ==
    /\ Commit(SpringValue_resume(World, k), Call("resume", k))

Finish(k) ==
    /\ Commit(SpringValue_finish(World, k), Call("finish", k))

\* A direct call of SpringValue.advance(dt)
Advance(k, dt) ==
    /\ Commit(SpringValue_advance(
                 Emit(Due(World, {k}, dt), Event("advance", k, 0, <<>>)), k, dt),
              [Call("advance", k) EXCEPT !.dt = dt])

\* The host's frame: frameLoop.advance(dt)
Tick(dt) ==
    /\ Commit(frameLoop_advance(Due(World, Keys, dt), dt),
              [Call("tick", "") EXCEPT !.dt = dt])

Init ==
    /\ sv = [k \in Keys |-> NewSpringValue(<<0>>, TimedConfig)]
    /\ results = <<>>
    /\ startQueue = <<>>
    /\ currentFrame = <<>>
    /\ priority = 0
    /\ ctl = <<>>
    /\ ran = [k \in Keys |-> [t |-> 0, course |-> "other"]]
    /\ last = Call("init", "")
    /\ loop = NoTick
    /\ owned = Keys

Next ==
    \/ \E k \in OneKey, props \in StartProps : Start(k, props)
    \/ \E k \in OneKey, value \in Vals : Set(k, value)
    \/ \E k \in OneKey, cancel \in BOOLEAN : Stop(k, cancel)
    \/ \E k \in OneKey : Pause(k)
    \/ \E k \in OneKey : Resume(k)
    \/ \E k \in OneKey : Finish(k)
    \/ \E k \in OneKey, dt \in Dts : Advance(k, dt)
    \/ \E dt \in Dts : Tick(dt)

Spec == Init /\ [][Next]_vars

----------------------------------------------------------------------------
(* One Value under every stepping mode *)

\* The props of the starts that choose among the stepping modes.
RuleProps ==
    [to : Opt(Vals), from : {None}, config : Opt(RuleConfigs), immediate : {None}]

NextRule ==
    \/ \E k \in OneKey, props \in RuleProps : Start(k, props)
    \/ \E k \in OneKey : Pause(k)
    \/ \E k \in OneKey : Resume(k)
    \/ \E k \in OneKey, dt \in Dts : Advance(k, dt)
    \/ \E dt \in Dts : Tick(dt)

SpecRule == Init /\ [][NextRule]_vars

----------------------------------------------------------------------------
(* One Value in duration mode, with durations 0, 2 and 4 *)

\* The props of the starts of the duration-mode runs.
DurationProps ==
    [to : Opt(Vals), from : Opt(Vals), config : Opt(DurationConfigs), immediate : {None}]

NextDuration ==
    \/ \E k \in OneKey, props \in DurationProps : Start(k, props)
    \/ \E k \in OneKey, dt \in Dts : Advance(k, dt)
    \/ \E dt \in Dts : Tick(dt)

SpecDuration == Init /\ [][NextDuration]_vars

----------------------------------------------------------------------------
(* One Value of type number[], constructed with [0], whose callers pass
   arrays of one and of two numbers *)

\* The arrays handed to set / start.
ShapeVals == {<<8>>, <<0, 0>>}

\* The props of the starts of these runs.
ShapeProps ==
    [to : Opt(ShapeVals), from : {None}, config : {None}, immediate : Opt({TRUE})]

NextShape ==
    \/ \E k \in OneKey, props \in ShapeProps : Start(k, props)
    \/ \E k \in OneKey, value \in ShapeVals : Set(k, value)
    \/ \E k \in OneKey, cancel \in BOOLEAN : Stop(k, cancel)
    \/ \E k \in OneKey : Pause(k)
    \/ \E k \in OneKey : Resume(k)
    \/ \E k \in OneKey : Finish(k)
    \/ \E k \in OneKey, dt \in Dts : Advance(k, dt)
    \/ \E dt \in Dts : Tick(dt)

SpecShape == Init /\ [][NextShape]_vars

----------------------------------------------------------------------------
(* One Value with the default spring, animated from 0 to 100 by frames of
   16 ms.  The numbers of these runs are in fixed point: 100 is 100000000. *)

\* { tension: 170, friction: 26 }
DefaultSpringConfig == [NoConfig EXCEPT !.tension = Some(170), !.friction = Some(26)]

\* The goal 100 and the frame time of 16 ms.
SpringGoal == <<100000000>>
SpringDt == 16

\* spring.start({ to: 100 }), once
SpringStart(k) ==
    /\ results = <<>>
    /\ Start(k, [NoProps EXCEPT !.to = Some(SpringGoal)])

InitSpring ==
    /\ sv = [k \in Keys |-> NewSpringValue(<<0>>, DefaultSpringConfig)]
    /\ results = <<>>
    /\ startQueue = <<>>
    /\ currentFrame = <<>>
    /\ priority = 0
    /\ ctl = <<>>
    /\ ran = [k \in Keys |-> [t |-> 0, course |-> "other"]]
    /\ last = Call("init", "")
    /\ loop = NoTick
    /\ owned = Keys

NextSpring ==
    \/ \E k \in OneKey : SpringStart(k)
    \/ \E k \in OneKey : sv[k].animating /\ Tick(SpringDt)

SpecSpring == InitSpring /\ [][NextSpring]_vars

----------------------------------------------------------------------------
(* One Value of two components whose callers pass NaN *)

\* The arrays handed to start as goal and as start of the segment.
NaNGoals == {<<8, 8>>, <<8, NaN>>, <<NaN, NaN>>}
NaNFroms == {<<NaN, 0>>}

\* The configurations of these runs: one per stepping rule.
NaNConfigs == {TimedConfig, DecayConfig, StiffConfig}

NaNProps ==
    [to : Opt(NaNGoals), from : Opt(NaNFroms), config : Opt(NaNConfigs), immediate : {None}]

InitNaN ==
    /\ sv = [k \in Keys |-> NewSpringValue(<<0, 0>>, TimedConfig)]
    /\ results = <<>>
    /\ startQueue = <<>>
    /\ currentFrame = <<>>
    /\ priority = 0
    /\ ctl = <<>>
    /\ ran = [k \in Keys |-> [t |-> 0, course |-> "other"]]
    /\ last = Call("init", "")
    /\ loop = NoTick
    /\ owned = Keys

NextNaN ==
    \/ \E k \in OneKey, props \in NaNProps : Start(k, props)
    \/ \E k \in OneKey, dt \in Dts : Advance(k, dt)
    \/ \E dt \in Dts : Tick(dt)

SpecNaN == InitNaN /\ [][NextNaN]_vars

----------------------------------------------------------------------------
(* One Value under every stepping mode, with and without a rounding quantum *)

\* { tension: 1000000, friction: 1000, bounce: 1 } and { ..., clamp: true }
BouncyConfig == [StiffConfig EXCEPT !.bounce = Some(1)]
ClampedConfig == [BouncyConfig EXCEPT !.clamp = Some(TRUE)]

\* The same configurations with round: 3; no goal but 0 is a multiple of 3.
RoundedTimedConfig == [TimedConfig EXCEPT !.round = Some(3)]
RoundedDecayConfig == [DecayConfig EXCEPT !.round = Some(3)]
RoundedStiffConfig == [StiffConfig EXCEPT !.round = Some(3)]
RoundedBouncyConfig == [BouncyConfig EXCEPT !.round = Some(3)]

RoundConfigs ==
    {TimedConfig, DecayConfig, StiffConfig, BouncyConfig, ClampedConfig,
     RoundedTimedConfig, RoundedDecayConfig, RoundedStiffConfig, RoundedBouncyConfig}

RoundProps ==
    [to : Opt(Vals), from : {None}, config : Opt(RoundConfigs), immediate : {None}]

\* Time, in ms, for which one animation is followed: a spring with a
\* rounding quantum can go on for ever.
MaxElapsed == 6

\* No animation has been followed for that long.
InTime == \A k \in Keys : ran[k].t < MaxElapsed

NextRound ==
    \/ \E k \in OneKey, props \in RoundProps : Start(k, props)
    \/ \E k \in OneKey, dt \in Dts : InTime /\ Advance(k, dt)
    \/ \E dt \in Dts : InTime /\ Tick(dt)

SpecRound == Init /\ [][NextRound]_vars

----------------------------------------------------------------------------
(* Values that animate one segment after the other *)

\* The goals of the successive starts: neither is the initial value 0.
SegmentVals == {<<8>>, <<4>>}

\* start({to}) with nothing else
SegmentStart(k, to) == Start(k, [NoProps EXCEPT !.to = Some(to)])

NextSegment ==
    \/ \E k \in Keys, to \in SegmentVals : SegmentStart(k, to)
    \/ \E k \in Keys : Pause(k)
    \/ \E k \in Keys : Resume(k)
    \/ \E dt \in Dts : Tick(dt)

SpecSegment == Init /\ [][NextSegment]_vars

----------------------------------------------------------------------------
(* The frame loop with three handles of different priorities, its ticks
   taken turn by turn, and observers that call back during a turn *)

\* Number of SpringValue.start promises created in one behaviour of the loop.
MaxLoopStarts == 3

\* Number of calls of frameLoop.sort by callers in one behaviour.
MaxSorts == 1

Handles == {"a", "b", "c"}

\* The handles whose owner pauses and resumes them.
Pausable == {"a"}

\* The priorities given to the handles a, b, c before they are registered.
Priorities == {<<2, 0, 1>>, <<0, 0, 1>>}

\* The priorities a caller changes a handle to.
SortPriorities == {0, 1}

\* The goal of the loop's animations.
LoopVals == {<<8>>}

\* The frame time of the loop's runs: an animation takes two frames.
LoopDts == {1}

\* Code of a caller can run: no tick is in progress, or the observers of the
\* handle in turn are running.
Callable == ~loop.inTick \/ loop.window

HandleStart(k, to) ==
    /\ Callable
    /\ Len(results) < MaxLoopStarts
    /\ Commit(SpringValue_start(World, k, [NoProps EXCEPT !.to = Some(to)]),
              [Call("start", k) EXCEPT !.props.to = Some(to)])

HandlePause(k) == Callable /\ Pause(k)

HandleResume(k) == Callable /\ Resume(k)

\* The host's frame starts: the callback queued by raf.onStart
FlushStart ==
    /\ ~loop.inTick
    /\ startQueue # <<>>
    /\ Commit(flushStartQueue(World), Call("flushStartQueue", ""))

\* The host calls frameLoop.advance(dt)
TickBegin(dt) ==
    /\ ~loop.inTick
    /\ Commit(advance_begin(World, dt), [Call("frameLoop.advance", "") EXCEPT !.dt = dt])

\* (history) the turn of `animation` ends: its priority when it was advanced
\* and whether it is idle now.
Turned(w, animation) ==
    [w EXCEPT !.loop.turns =
        Append(@, [k |-> animation, priority |-> priority,
                   idle |-> idle(w.sv[animation])])]

TurnEnter ==
    /\ loop.inTick /\ loop.animation = ""
    /\ loop.i <= Len(currentFrame)
    /\ Commit(advance_enter(World, currentFrame[loop.i]), Call("enter", currentFrame[loop.i]))

TurnLeave ==
    /\ loop.inTick /\ loop.animation # ""
    /\ Commit(Turned(advance_leave(World, loop.animation), loop.animation),
              Call("leave", loop.animation))

TickEnd ==
    /\ loop.inTick /\ loop.animation = ""
    /\ loop.i > Len(currentFrame)
    /\ Commit(advance_end(World), Call("return", ""))

InitLoop ==
    /\ \E p \in Priorities :
          sv = [k \in Handles |->
                  [NewSpringValue(<<0>>, TimedConfig) EXCEPT
                      !.priority = p[CHOOSE i \in 1..3 : <<"a", "b", "c">>[i] = k]]]
    /\ results = <<>>
    /\ startQueue = <<>>
    /\ currentFrame = <<>>
    /\ priority = 0
    /\ ctl = <<>>
    /\ ran = [k \in Handles |-> [t |-> 0, course |-> "other"]]
    /\ last = Call("init", "")
    /\ loop = NoTick
    /\ owned = Keys

NextLoop ==
    \/ \E k \in Handles, to \in LoopVals : HandleStart(k, to)
    \/ \E k \in Pausable : HandlePause(k)
    \/ \E k \in Pausable : HandleResume(k)
    \/ FlushStart
    \/ \E dt \in LoopDts : TickBegin(dt)
    \/ TurnEnter
    \/ TurnLeave
    \/ TickEnd

SpecLoop == InitLoop /\ [][NextLoop]_vars

\* Priorities below the 0 that `priority` holds between the ticks.
SignedPriorities == {<<-1, 0, 1>>}

InitSigned ==
    /\ \E p \in SignedPriorities :
          sv = [k \in Handles |->
                  [NewSpringValue(<<0>>, TimedConfig) EXCEPT
                      !.priority = p[CHOOSE i \in 1..3 : <<"a", "b", "c">>[i] = k]]]
    /\ results = <<>>
    /\ startQueue = <<>>
    /\ currentFrame = <<>>
    /\ priority = 0
    /\ ctl = <<>>
    /\ ran = [k \in Handles |-> [t |-> 0, course |-> "other"]]
    /\ last = Call("init", "")
    /\ loop = NoTick
    /\ owned = Keys

\* The frame loop with a handle of negative priority
SpecSigned == InitSigned /\ [][NextLoop]_vars

\* animation.priority = p; frameLoop.sort(animation)
Sort(k, p) ==
    /\ Callable
    /\ loop.sorts < MaxSorts
    /\ Commit(frameLoop_sort([World EXCEPT !.sv[k].priority = p, !.loop.sorts = @ + 1], k),
              Call("sort", k))

\* The host runs the callbacks queued by raf.onFrame
OnFrame ==
    /\ ~loop.inTick
    /\ loop.onFrame # <<>>
    /\ Commit(sortEach([World EXCEPT !.loop.onFrame = <<>>], loop.onFrame, 1),
              Call("onFrame", ""))

NextSort ==
    \/ \E k \in Handles, to \in LoopVals : HandleStart(k, to)
    \/ \E k \in Pausable : HandlePause(k)
    \/ \E k \in Pausable : HandleResume(k)
    \/ \E k \in Handles, p \in SortPriorities : Sort(k, p)
    \/ FlushStart
    \/ OnFrame
    \/ \E dt \in LoopDts : TickBegin(dt)
    \/ TurnEnter
    \/ TurnLeave
    \/ TickEnd

SpecSort == InitLoop /\ [][NextSort]_vars

----------------------------------------------------------------------------
(* Actions of the controller of two keys *)

\* The props a caller passes to springRef.start.
CtlProps ==
    [to : [Keys -> Opt(Vals)], from : [Keys -> {None}], config : {None},
     immediate : Opt({TRUE})]

\* The frame times of the controller's runs: a frame ends every animation it
\* advances.
CtlDts == {Get(TimedConfig.duration)}

\* The arrays a caller passes to springRef.stopKeys.
KeyLists == {<<"a">>, <<"b">>, <<"a", "b">>}

\* The controller's runs keep no history of the single Values: `ran` and
\* `last` stay as they are.
CtlCommit(w) ==
    /\ sv' = w.sv
    /\ results' = w.results
    /\ startQueue' = w.startQueue
    /\ currentFrame' = w.currentFrame
    /\ priority' = w.priority
    /\ ctl' = w.ctl
    /\ ran' = ran
    /\ last' = last
    /\ loop' = w.loop
    /\ owned' = w.owned

\* The number of keys springRef.start(props) calls start on.
Dispatched(props) ==
    Cardinality({k \in Keys : springRef_startProps(props, k) # NoProps})

\* The promises that some springRef.start awaits.
Awaited ==
    {r \in 1..Len(results) :
        \E j \in 1..Len(ctl) : \E i \in 1..Len(ctl[j].promises) : ctl[j].promises[i] = r}

CtlStart(props) ==
    /\ Len(ctl) < MaxCtlStarts
    /\ Cardinality(Awaited) + Dispatched(props) <= MaxSubs
    /\ CtlCommit(springRef_start(World, props))

\* The continuation of springRef.start after its await, for aggregate j
CtlReturn(j) ==
    /\ ctl[j].state = "pending"
    /\ AllSettled(World, j)
    /\ CtlCommit(springRef_return(World, j))

CtlStop(cancel) ==
    /\ CtlCommit(springRef_stop(World, cancel))

CtlStopKeys(ks, cancel) ==
    /\ CtlCommit(springRef_stopKeys(MarkStopped(World, ks, cancel), ks, cancel))

CtlFinish ==
    /\ CtlCommit(springRef_finish(World))

\* The host's frame.  A frame is a task of its own: the continuations of the
\* promises fulfilled before it have run.
CtlTick(dt) ==
    /\ \A j \in 1..Len(ctl) : ctl[j].state = "pending" => ~AllSettled(World, j)
    /\ CtlCommit(frameLoop_advance(World, dt))

NextCtl ==
    \/ \E props \in CtlProps : CtlStart(props)
    \/ \E j \in 1..Len(ctl) : CtlReturn(j)
    \/ \E cancel \in BOOLEAN : CtlStop(cancel)
    \/ \E ks \in KeyLists, cancel \in BOOLEAN : CtlStopKeys(ks, cancel)
    \/ CtlFinish
    \/ \E dt \in CtlDts : CtlTick(dt)

SpecCtl == Init /\ [][NextCtl]_vars

\* A goal getter of the controller changes: the effect of its key runs.
GoalChanged(k, newGoal) ==
    /\ Len(results) - Cardinality(Awaited) < MaxEffects
    /\ CtlCommit(effect_run(World, k, newGoal))

NextRef ==
    \/ \E props \in CtlProps : CtlStart(props)
    \/ \E j \in 1..Len(ctl) : CtlReturn(j)
    \/ \E cancel \in BOOLEAN : CtlStop(cancel)
    \/ \E ks \in KeyLists, cancel \in BOOLEAN : CtlStopKeys(ks, cancel)
    \/ CtlFinish
    \/ \E dt \in CtlDts : CtlTick(dt)
    \/ \E k \in Keys, newGoal \in Vals : GoalChanged(k, newGoal)

\* The controller with the reactive goals of spring()
SpecRef == Init /\ [][NextRef]_vars

----------------------------------------------------------------------------
(* The controller with its whole interface, up to and after its destruction *)

\* The props a caller passes to springRef.start.
OwnProps ==
    [to : [Keys -> Opt({<<8>>})], from : [Keys -> {None}], config : {None},
     immediate : Opt({TRUE})]

\* The arrays a caller passes to stopKeys, pauseKeys and resumeKeys; the
\* controller has no key "z".
OwnKeyLists == {<<"a">>, <<"b", "z">>, <<"z">>}

OwnStart(props) ==
    /\ Len(ctl) < MaxCtlStarts
    /\ Cardinality(Awaited) + Dispatched(props) <= MaxSubs
    /\ Commit(springRef_start(World, props),
              [Call("springRef.start", "") EXCEPT !.props = props])

\* The continuation of springRef.start after its await, for aggregate j
OwnReturn(j) ==
    /\ ctl[j].state = "pending"
    /\ AllSettled(World, j)
    /\ Commit(springRef_return(World, j), Call("springRef.start.return", ""))

OwnStop(cancel) ==
    /\ Commit(springRef_stop(World, cancel),
              [Call("springRef.stop", "") EXCEPT !.cancel = cancel])

OwnStopKeys(ks, cancel) ==
    /\ Commit(springRef_stopKeys(World, ks, cancel),
              [Call("stopKeys", "") EXCEPT !.keys = Range(ks), !.cancel = cancel])

OwnPause ==
    /\ Commit(springRef_pause(World), Call("springRef.pause", ""))

OwnPauseKeys(ks) ==
    /\ Commit(springRef_pauseKeys(World, ks), [Call("pauseKeys", "") EXCEPT !.keys = Range(ks)])

OwnResume ==
    /\ Commit(springRef_resume(World), Call("springRef.resume", ""))

OwnResumeKeys(ks) ==
    /\ Commit(springRef_resumeKeys(World, ks),
              [Call("resumeKeys", "") EXCEPT !.keys = Range(ks)])

OwnFinish ==
    /\ Commit(springRef_finish(World), Call("springRef.finish", ""))

OwnGet(key) ==
    /\ Commit(springRef_get(World, key), Call("springRef.get", key))

OwnGetAll ==
    /\ Commit(springRef_getAll(World), Call("springRef.getAll", ""))

\* The owner of the controller is destroyed.
Destroy ==
    /\ owned # {}
    /\ Commit(onDestroy(World), Call("onDestroy", ""))

\* A caller that kept a Value of the destroyed controller starts it.
KeptStart(k, to) ==
    /\ owned = {}
    /\ Start(k, [NoProps EXCEPT !.to = Some(to)])

\* The host's frame, a task of its own.
OwnTick(dt) ==
    /\ \A j \in 1..Len(ctl) : ctl[j].state = "pending" => ~AllSettled(World, j)
    /\ Commit(frameLoop_advance(World, dt), [Call("tick", "") EXCEPT !.dt = dt])

\* A controller that lives on, driven through its key lists
NextKeys ==
    \/ \E props \in OwnProps : OwnStart(props)
    \/ \E j \in 1..Len(ctl) : OwnReturn(j)
    \/ \E ks \in OwnKeyLists, cancel \in BOOLEAN : OwnStopKeys(ks, cancel)
    \/ \E ks \in OwnKeyLists : OwnPauseKeys(ks)
    \/ \E ks \in OwnKeyLists : OwnResumeKeys(ks)
    \/ \E dt \in CtlDts : OwnTick(dt)

SpecKeys == Init /\ [][NextKeys]_vars

NextOwn ==
    \/ \E props \in OwnProps : OwnStart(props)
    \/ \E j \in 1..Len(ctl) : OwnReturn(j)
    \/ \E cancel \in BOOLEAN : OwnStop(cancel)
    \/ OwnPause
    \/ OwnResume
    \/ OwnFinish
    \/ \E key \in OneKey : OwnGet(key)
    \/ OwnGetAll
    \/ Destroy
    \/ \E k \in OneKey : KeptStart(k, <<0>>)
    \/ \E dt \in CtlDts : OwnTick(dt)

SpecOwn == Init /\ [][NextOwn]_vars

----------------------------------------------------------------------------
(* Properties of a single SpringValue *)

\* The handler `call` called resolve of promise r of Value k with `value`.
SettledIn(call, k, r, value) ==
    \E i \in 1..Len(call.ev) : call.ev[i] = Event("settle", k, r, value)

\* The handler `call` invoked the observers of Value k.
NotifiedIn(call, k) ==
    \E i \in 1..Len(call.ev) : call.ev[i].e = "notify" /\ call.ev[i].k = k

\* The handler `call` marked Value k not animating inside advance.
RestIn(call, k) ==
    \E i \in 1..Len(call.ev) : call.ev[i].e = "rest" /\ call.ev[i].k = k

\* Promise r belongs to Value k and is pending.
PendingOn(k, r) == results[r].k = k /\ results[r].state = "pending"

\* Value k is in the running list or in the pending-start set.
Registered(k) == k \in Range(currentFrame) \cup Range(startQueue)

StopIsNoop(k) ==
    /\ sv'[k] = sv[k]
    /\ results' = results
    /\ last'.ev = <<>>

\* C4 as stated: a second stop right after a stop, and a stop on a Value whose
\* idle flag is true, change nothing.
C4_StopOnIdleIsNoop ==
    [][\A k \in Keys :
        (/\ last'.op = "stop" /\ last'.k = k
         /\ idle(sv[k]) \/ (last.op = "stop" /\ last.k = k)) =>
            StopIsNoop(k)]_vars

\* C4 amended: a second stop right after a stop, and a stop on a Value that
\* is not animating, change nothing (a paused Value in mid-animation is idle,
\* and stop does stop it).
C4_StopNotAnimatingIsNoop ==
    [][\A k \in Keys :
        (/\ last'.op = "stop" /\ last'.k = k
         /\ ~sv[k].animating \/ (last.op = "stop" /\ last.k = k)) =>
            StopIsNoop(k)]_vars

\* C4 witness: a stop has just run on a Value that had animated before and
\* settled nothing.
C4_Witness ==
    /\ last.op = "stop" /\ last.ev = <<>>
    /\ \E r \in 1..Len(results) : results[r].k = last.k /\ results[r].state = "settled"

\* A promise of Value k was cancelled.
Cancelled(k) ==
    \E c \in 1..Len(results) : results[c].k = k /\ results[c].cancelled = Some(TRUE)

\* C5, the start after a cancellation: start({to}) with to different from the
\* value marks the Value animating, registers it with the frame loop and
\* leaves its promise pending.
C5_Restart(k) ==
    (/\ last'.op = "start" /\ last'.k = k
     /\ Cancelled(k)
     /\ ~Truthy(last'.props.immediate)
     /\ last'.props.to # None
     /\ ~isEqual(sv'[k].value, sv'[k].to)) =>
        /\ sv'[k].animating
        /\ Registered(k)'
        /\ results'[Len(results')].state = "pending"
        /\ sv'[k].pendingResolvers # <<>>
        /\ sv'[k].pendingResolvers[Len(sv'[k].pendingResolvers)] = Len(results')

\* C5, the promise r of that start, when nothing but ticks followed the start
\* and a tick settles it: finished, not cancelled, with the goal as its value.
C5_Settles(k, r) ==
    (/\ last'.op = "tick"
     /\ Cancelled(k)
     /\ ran[k].course = "ticks"
     /\ PendingOn(k, r)
     /\ r = sv[k].pendingResolvers[Len(sv[k].pendingResolvers)]
     /\ results'[r].state = "settled") =>
        /\ results'[r].finished = Some(TRUE)
        /\ results'[r].cancelled # Some(TRUE)
        /\ SettledIn(last', k, r, sv[k].to)

\* C5, bounded: once ticks made the duration pass, the restarted animation
\* is over.
C5_InTime(k) ==
    (/\ Cancelled(k)
     /\ ran[k].course = "ticks"
     /\ sv[k].animating /\ ~sv[k].paused
     /\ sv[k].config.duration # None) =>
        ran[k].t < Get(sv[k].config.duration)

\* No promise has its resolve called twice.
SettledOnce == \A r \in 1..Len(results') : results'[r].calls <= 1

\* C5 as stated: after stop(true), a later start({to}) with to different from
\* the value marks the Value animating and registers it, the ticks that
\* follow settle its promise with finished = true and value = to, and the
\* cancelled promise is not settled again.
C5_RestartAfterCancel ==
    [][\A k \in Keys :
        /\ C5_Restart(k)
        /\ \A r \in 1..Len(results) : C5_Settles(k, r)
        /\ C5_InTime(k)
        /\ SettledOnce]_vars

\* C5 amended: the same for a Value that is not paused and whose
\* configuration has tension > 0 and no rounding quantum (a loose spring,
\* tension <= 0, finishes without moving: its promise settles with the value
\* it started from).
C5_RestartAfterCancelTense ==
    [][\A k \in Keys :
        /\ C5_Restart(k)
        /\ \A r \in 1..Len(results) :
            (sv[k].config.tension > 0 /\ sv[k].config.round = None) => C5_Settles(k, r)
        /\ C5_InTime(k)
        /\ SettledOnce]_vars

\* C5 witness: the promise of a start issued after a cancellation has just
\* been settled by a tick with the goal, the cancelled promise still settled
\* once.
C5_Witness ==
    /\ last.op = "tick"
    /\ Len(results) = 2
    /\ results[1].cancelled = Some(TRUE) /\ results[1].calls = 1
    /\ results[2].finished = Some(TRUE) /\ results[2].calls = 1
    /\ results[2].k = results[1].k
    /\ SettledIn(last, results[2].k, 2, sv[results[2].k].to)
    /\ sv[results[2].k].config.tension > 0

\* C6: after set(v), in whatever state the Value was, get() is v, the goal is
\* v and the Value is not animating.
C6_SetRoundTrip ==
    [][\A k \in Keys :
        (last'.op = "set" /\ last'.k = k) =>
            /\ sv'[k].value = Get(last'.props.to)
            /\ sv'[k].to = Get(last'.props.to)
            /\ ~sv'[k].animating]_vars

\* C6 witness: set has just run on a paused Value in mid-animation, and
\* changed its value.
C6_Witness ==
    /\ last.op = "set"
    /\ sv[last.k].paused
    /\ \E i \in 1..Len(last.ev) : last.ev[i].e = "settle"
    /\ NotifiedIn(last, last.k)

\* C7: a start without immediate that finds the value equal to the goal,
\* once its from and to are applied, settles its promise with finished and
\* noop, queues no completion and leaves the frame loop's lists alone.
C7_NoopStart ==
    [][\A k \in Keys :
        (/\ last'.op = "start" /\ last'.k = k
         /\ ~Truthy(last'.props.immediate)
         /\ isEqual(sv'[k].value, sv'[k].to)) =>
            /\ results'[Len(results')] =
                 [NewResult(k) EXCEPT !.state = "settled", !.finished = Some(TRUE),
                                      !.noop = Some(TRUE), !.calls = 1]
            /\ sv'[k].pendingResolvers = sv[k].pendingResolvers
            /\ currentFrame' = currentFrame
            /\ startQueue' = startQueue]_vars

\* C7 witness: a start carrying from and to that are equal has just settled
\* as a no-op, on a Value whose value it changed.
C7_Witness ==
    /\ last.op = "start"
    /\ last.props.from # None /\ last.props.to = last.props.from
    /\ results[Len(results)].noop = Some(TRUE)
    /\ NotifiedIn(last, last.k)
    /\ currentFrame = <<>>

\* C8: start with immediate = true leaves the value equal to the goal (the
\* call's to, or the goal the Value had when to is absent), the Value not
\* animating, and its promise settled with finished and that value.
C8_ImmediateStart ==
    [][\A k \in Keys :
        (last'.op = "start" /\ last'.k = k /\ Truthy(last'.props.immediate)) =>
            /\ sv'[k].to = Coalesce(last'.props.to, sv[k].to)
            /\ sv'[k].value = sv'[k].to
            /\ ~sv'[k].animating
            /\ results'[Len(results')].state = "settled"
            /\ results'[Len(results')].finished = Some(TRUE)
            /\ SettledIn(last', k, Len(results'), sv'[k].to)]_vars

\* C8 witness: an immediate start without to has just made a Value in
\* mid-animation jump to the goal it already had.
C8_Witness ==
    /\ last.op = "start"
    /\ Truthy(last.props.immediate) /\ last.props.to = None
    /\ NotifiedIn(last, last.k)
    /\ sv[last.k].pendingResolvers # <<>>

\* C9: a tick or a direct advance(dt) leaves a paused Value's value, nodes,
\* animating flag and pending completions as they were and notifies no
\* observer of it.
C9_PausedIsFrozen ==
    [][\A k \in Keys :
        (/\ sv[k].paused
         /\ last'.op = "tick" \/ (last'.op = "advance" /\ last'.k = k)) =>
            /\ sv'[k].value = sv[k].value
            /\ sv'[k].nodes = sv[k].nodes
            /\ sv'[k].animating = sv[k].animating
            /\ sv'[k].pendingResolvers = sv[k].pendingResolvers
            /\ ~NotifiedIn(last', k)]_vars

\* C9 witness: advance(dt) has just been called on a Value paused in
\* mid-flight, which is still in mid-flight.
C9_Witness ==
    /\ last.op = "advance"
    /\ sv[last.k].paused /\ sv[last.k].animating
    /\ sv[last.k].nodes[1].elapsedTime > 0
    /\ ~sv[last.k].nodes[1].done

\* The value a duration-mode animation of Value k publishes after t ms.
Trajectory(k, t) ==
    [i \in 1..Len(sv[k].nodes) |->
        sv[k].from[i] + (t * (sv[k].to[i] - sv[k].from[i]))
                            \div Get(sv[k].config.duration)]

\* C10: in duration mode a Value that was only ticked, paused and resumed
\* since its start is where the time it spent unpaused puts it: its nodes
\* have that elapsed time, its value is the one of that time, it is still
\* animating only if that time is below the duration, and the advance that
\* finishes it comes when that time has reached the duration.
C10_ResumeContinues ==
    \A k \in Keys :
        (/\ ran[k].course \in {"ticks", "held"}
         /\ sv[k].config.tension > 0
         /\ sv[k].config.duration # None) =>
            /\ sv[k].animating =>
                /\ ran[k].t < Get(sv[k].config.duration)
                /\ \A i \in 1..Len(sv[k].nodes) : sv[k].nodes[i].elapsedTime = ran[k].t
                /\ ran[k].t > 0 => sv[k].value = Trajectory(k, ran[k].t)
            /\ RestIn(last, k) =>
                /\ ran[k].t >= Get(sv[k].config.duration)
                /\ ran[k].t - last.dt < Get(sv[k].config.duration)
                /\ sv[k].value = sv[k].to

\* C10 witness: a tick has just finished a Value that was paused in
\* mid-flight, ticked while paused and resumed.
C10_Witness ==
    /\ last.op = "tick"
    /\ RestIn(last, "a")
    /\ ran["a"].course = "held"
    /\ last.dt = 1
    /\ ran["a"].t = Get(sv["a"].config.duration)

----------------------------------------------------------------------------
(* Properties of the controller *)

\* The promises awaited by aggregate j.
Subs(j) == {ctl[j].promises[i] : i \in 1..Len(ctl[j].promises)}

\* C1: the promise of springRef.start is settled only when the promise of
\* every key it called start on is settled, whatever ticks, stopKeys, stop,
\* finish and further start calls come in between.
C1_AggregateAwaitsAll ==
    \A j \in 1..Len(ctl) :
        ctl[j].state = "settled" => \A r \in Subs(j) : results[r].state = "settled"

\* C1 witness: an aggregate over both keys is settled, one of its promises
\* cancelled by a stop and the other one finished by a later frame.
C1_Witness ==
    \E j \in 1..Len(ctl) :
        /\ ctl[j].state = "settled"
        /\ Len(ctl[j].promises) = 2
        /\ results[ctl[j].promises[1]].cancelled = Some(TRUE)
        /\ results[ctl[j].promises[2]].finished = Some(TRUE)
        /\ results[ctl[j].promises[2]].cancelled = None
        /\ results[ctl[j].promises[2]].noop = None

\* C2: a settled aggregate has finished = the conjunction of its promises'
\* finished flags and cancelled = the disjunction of their cancelled flags;
\* and when stopKeys(ks, true) was called while a promise of the aggregate
\* was pending on one of the keys ks, it has cancelled = true and finished =
\* false.
C2_AggregateFlags ==
    \A j \in 1..Len(ctl) :
        ctl[j].state = "settled" =>
            /\ ctl[j].finished = (\A r \in Subs(j) : results[r].finished = Some(TRUE))
            /\ ctl[j].cancelled = (\E r \in Subs(j) : results[r].cancelled = Some(TRUE))
            /\ ctl[j].stopped => (ctl[j].cancelled /\ ~ctl[j].finished)

----------------------------------------------------------------------------
(* Properties of a single SpringValue, continued *)

\* C11: finish() on an animating Value, paused or not, leaves the value equal
\* to the goal and the Value not animating, and settles every promise pending
\* on it with finished = true, cancelled = false and the goal as value;
\* finish() on a Value that is not animating changes nothing.
C11_Finish ==
    [][\A k \in Keys :
        (last'.op = "finish" /\ last'.k = k) =>
            IF sv[k].animating
            THEN /\ sv'[k].value = sv[k].to
                 /\ sv'[k].to = sv[k].to
                 /\ ~sv'[k].animating
                 /\ sv'[k].pendingResolvers = <<>>
                 /\ \A r \in 1..Len(results) :
                     PendingOn(k, r) =>
                        /\ results'[r] =
                             [results[r] EXCEPT !.state = "settled",
                                                !.finished = Some(TRUE),
                                                !.cancelled = Some(FALSE),
                                                !.calls = 1]
                        /\ SettledIn(last', k, r, sv[k].to)
            ELSE StopIsNoop(k)]_vars

\* C11 witness: finish() has just made a paused Value jump from mid-flight to
\* its goal and settled its promise.
C11_Witness ==
    /\ last.op = "finish"
    /\ sv[last.k].paused
    /\ NotifiedIn(last, last.k)
    /\ \E r \in 1..Len(results) : SettledIn(last, last.k, r, sv[last.k].to)
    /\ sv[last.k].nodes[1].position # sv[last.k].value[1]

\* The indices of the events of `call` that invoke the observers of Value k.
Notifications(call, k) ==
    {i \in 1..Len(call.ev) : call.ev[i].e = "notify" /\ call.ev[i].k = k}

\* The value Value k had before the i-th event of the handler that makes the
\* step: the value of the notification of k before it, else the value at
\* the call.
ValueBefore(k, i) ==
    IF \E j \in Notifications(last', k) : j < i
    THEN last'.ev[CHOOSE j \in Notifications(last', k) :
                    j < i /\ \A h \in Notifications(last', k) : h < i => h <= j].value
    ELSE sv[k].value

\* C12: each time a handler invokes the observers of a Value, the value it
\* hands them differs from the value the Value had just before, and is the
\* value the Value has then; a set, a start({from}) without immediate, a
\* finish or an advance that leaves the value as it was invokes no observer.
C12_NotifyOnChangeOnly ==
    [][\A k \in Keys :
        /\ \A i \in Notifications(last', k) :
              ~isEqual(last'.ev[i].value, ValueBefore(k, i))
        /\ Notifications(last', k) # {} =>
              sv'[k].value = ValueBefore(k, Len(last'.ev) + 1)
        /\ (/\ isEqual(sv'[k].value, sv[k].value)
            /\ \/ last'.op \in {"set", "finish", "advance", "tick"}
               \/ /\ last'.op = "start"
                  /\ last'.props.from # None
                  /\ ~Truthy(last'.props.immediate)) =>
              Notifications(last', k) = {}]_vars

\* C12 witness: set(v) with v the value of a Value just started has stopped
\* it and invoked no observer.
C12_Witness ==
    /\ last.op = "set"
    /\ Notifications(last, last.k) = {}
    /\ \E i \in 1..Len(last.ev) : last.ev[i].e = "settle"
    /\ ran[last.k].t = 0

\* The indices of the events of `call` of kind e about Value k.
EventsOf(call, e, k) ==
    {i \in 1..Len(call.ev) : call.ev[i].e = e /\ call.ev[i].k = k}

\* C13: a call that changes the value of a Value has notified the observers
\* of the new value by the time it returns; and in the advance that
\* completes an animation the notification of the final value comes before
\* the Value is marked not animating, which comes before any pending result
\* is settled.
C13_NotifyBeforeRest ==
    [][\A k \in Keys :
        /\ sv'[k].value # sv[k].value =>
              /\ Notifications(last', k) # {}
              /\ \E i \in Notifications(last', k) :
                    /\ last'.ev[i].value = sv'[k].value
                    /\ \A j \in Notifications(last', k) : j <= i
        /\ (last'.op \in {"advance", "tick"} /\ sv[k].animating /\ ~sv'[k].animating) =>
              /\ EventsOf(last', "rest", k) # {}
              /\ \A r \in EventsOf(last', "rest", k) :
                    /\ last'.ev[r].value = sv'[k].value
                    /\ \A n \in Notifications(last', k) : n < r
                    /\ \A s \in EventsOf(last', "settle", k) : r < s]_vars

\* C13 witness: a tick has moved a Value to its goal, notified its
\* observers, marked it not animating and settled a pending result.
C13_Witness ==
    /\ last.op \in {"advance", "tick"}
    /\ \E k \in Keys :
          /\ Notifications(last, k) # {}
          /\ EventsOf(last, "rest", k) # {}
          /\ EventsOf(last, "settle", k) # {}
          /\ ~sv[k].animating
          /\ sv[k].value = sv[k].to

----------------------------------------------------------------------------
(* Properties of the stepping rules *)

\* The handler that makes the step advances Value k by dt: a direct advance,
\* or a tick of the frame loop with k in the running list; and k is animating
\* and not paused.
Advances(k) ==
    /\ sv[k].animating /\ ~sv[k].paused
    /\ \/ last'.op = "advance" /\ last'.k = k
       \/ last'.op = "tick" /\ k \in Range(currentFrame)

\* C19: with tension <= 0, in duration, decay or spring mode, an advance of
\* an animating Value that is not paused completes the animation whatever
\* dt is: the Value is not animating afterwards and each of its pending
\* results is settled with finished = true.
C19_LooseCompletes ==
    [][\A k \in Keys :
        (Advances(k) /\ sv[k].config.tension <= 0) =>
            /\ ~sv'[k].animating
            /\ sv'[k].pendingResolvers = <<>>
            /\ \A r \in 1..Len(results) :
                  PendingOn(k, r) =>
                     /\ results'[r].state = "settled"
                     /\ results'[r].finished = Some(TRUE)
                     /\ SettledIn(last', k, r, sv'[k].value)]_vars

\* C19 witness: an advance by the shorter dt has completed a loose Value
\* that is not in duration mode and settled a result.
C19_Witness ==
    /\ last.op = "advance" /\ last.dt = 1
    /\ sv[last.k].config.tension <= 0
    /\ sv[last.k].config.duration = None
    /\ ~sv[last.k].animating
    /\ \E r \in 1..Len(results) : SettledIn(last, last.k, r, sv[last.k].value)

\* Component 1 of Value s as advance(dt) prepares it for its stepping rule.
Prepared(s, dt) ==
    [s.nodes[1] EXCEPT !.elapsedTime = @ + dt,
                       !.v0 = IF @ = None THEN Some(s.config.velocity) ELSE @]

\* Component 1 of Value s after an advance whose stepping rule gave `step`.
Stepped(s, step) ==
    node_step(s.config,
              [nodes |-> s.nodes, memo |-> s.memoizedDuration,
               allDone |-> TRUE, changed |-> FALSE],
              1, step, s.to[1]).nodes[1]

\* The outcome of the one rule the configuration selects: duration when
\* present, else decay when set, else spring.
BySelected(s, dt) ==
    IF s.config.duration # None
    THEN Stepped(s, durationRule(s.config, Prepared(s, dt), s.memoizedDuration,
                                 s.from[1], s.to[1], dt))
    ELSE IF decaying(s.config)
    THEN Stepped(s, decayRule(s.config, Prepared(s, dt), s.memoizedDuration,
                              s.from[1], s.to[1], dt))
    ELSE Stepped(s, springRule(s.config, Prepared(s, dt), s.memoizedDuration,
                               s.from[1], s.to[1], dt))

\* C20 as stated: every advance of an animating Value that is not paused
\* leaves each component that was not done as the selected rule, and that
\* rule alone, makes it.
C20_OneRule ==
    [][\A k \in Keys :
        (Advances(k) /\ ~sv[k].nodes[1].done) =>
            sv'[k].nodes[1] = BySelected(sv[k], last'.dt)]_vars

\* C20, amended: the same for the configurations with tension > 0.
C20_OneRuleTense ==
    [][\A k \in Keys :
        (Advances(k) /\ ~sv[k].nodes[1].done /\ sv[k].config.tension > 0) =>
            sv'[k].nodes[1] = BySelected(sv[k], last'.dt)]_vars

\* C20 witness: an advance under { duration, decay } has left the component
\* half way, where only the duration rule puts it.
C20_Witness ==
    /\ last.op = "advance"
    /\ sv[last.k].config.duration # None /\ decaying(sv[last.k].config)
    /\ sv[last.k].config.tension > 0
    /\ sv[last.k].animating
    /\ sv[last.k].nodes[1].position \notin {sv[last.k].from[1], sv[last.k].to[1]}

----------------------------------------------------------------------------
(* Properties of the frame loop *)

\* C14: in a tick each handle advanced has a priority at least that of the
\* handles advanced before it, in whatever order the handles were started
\* and also when they are started by observers during the tick.
C14_AscendingTurns ==
    \A i, j \in 1..Len(loop.turns) :
        i < j => loop.turns[i].priority <= loop.turns[j].priority

\* C14 witness: three handles started in the order of priorities 2, 0, 1 were
\* advanced in one tick in the order 0, 1, 2.
C14_Witness ==
    /\ Len(results) = 3
    /\ [r \in 1..3 |-> sv[results[r].k].priority] = <<2, 0, 1>>
    /\ [t \in 1..Len(loop.turns) |-> loop.turns[t].priority] = <<0, 1, 2>>

\* An observer of the handle in turn calls start on the animation a, which
\* is not animating and away from the goal: SpringValue.start calls
\* frameLoop.start(a) during the tick.
StartsInTurn(a) ==
    /\ loop.inTick /\ loop.window
    /\ last'.op = "start" /\ last'.k = a
    /\ ~sv[a].animating
    /\ ~isEqual(sv[a].value, Get(last'.props.to))

\* The animation a was deferred: it is in the pending-start set, the running
\* list is as it was and a is not among the handles whose turn is to come.
Deferred(a) ==
    /\ a \in Range(startQueue')
    /\ currentFrame' = currentFrame
    /\ \A j \in (loop.i + 1)..Len(currentFrame) : currentFrame[j] # a

\* C15 as stated: frameLoop.start(a) during the turn of a handle of lower
\* priority than a defers a.
C15_DefersBelow ==
    [][\A a \in Handles :
        (StartsInTurn(a) /\ priority < sv[a].priority) => Deferred(a)]_vars

\* C15, amended: frameLoop.start(a) during the turn of a handle of higher
\* priority than a defers a: a is added to the pending-start set and is
\* neither inserted into the running list nor advanced in that tick.
C15_DefersAbove ==
    [][\A a \in Handles :
        (StartsInTurn(a) /\ priority > sv[a].priority) => Deferred(a)]_vars

\* C15 witness: during a tick an observer started a handle of lower priority
\* than the handle in turn, and it waits in the pending-start set.
C15_Witness ==
    /\ loop.inTick /\ loop.window
    /\ last.op = "start"
    /\ sv[last.k].animating
    /\ priority > sv[last.k].priority
    /\ last.k \in Range(startQueue)
    /\ last.k \notin Range(currentFrame)

\* C16: no handle is twice in the running list.
C16_AtMostOnce ==
    \A i, j \in 1..Len(currentFrame) : i # j => currentFrame[i] # currentFrame[j]

\* The handles of the turns that were not idle after their turn, in order.
RECURSIVE Kept(_)
Kept(turns) ==
    IF turns = <<>> THEN <<>>
    ELSE (IF Head(turns).idle THEN <<>> ELSE <<Head(turns).k>>) \o Kept(Tail(turns))

\* C17: when frameLoop.advance(dt) has returned, the running list is the
\* list of the handles that were not idle right after their turn, in the
\* order of their turns; the handles found idle at their turn are not in the
\* list; and it returned true iff the list is not empty.
C17_Retains ==
    last.op = "return" =>
        /\ currentFrame = Kept(loop.turns)
        /\ \A k \in loop.skipped : k \notin Range(currentFrame)
        /\ loop.returned = (currentFrame # <<>>)

\* C17 witness: a tick has returned true after it dropped a handle that
\* finished in its turn, skipped an idle handle and kept a third.
C17_Witness ==
    /\ last.op = "return"
    /\ loop.returned
    /\ loop.skipped # {}
    /\ \E t \in 1..Len(loop.turns) : loop.turns[t].idle
    /\ \E t \in 1..Len(loop.turns) : ~loop.turns[t].idle

\* C18: frameLoop.sort(a) during a tick leaves the running list as it is and
\* queues the repositioning; outside a tick it takes a out of the list and
\* puts it back before the first handle of higher priority.
C18_SortDefers ==
    [][\A a \in Handles :
        (last'.op = "sort" /\ last'.k = a) =>
            IF loop.inTick
            THEN /\ currentFrame' = currentFrame
                 /\ loop'.onFrame = Append(loop.onFrame, a)
            ELSE /\ loop'.onFrame = loop.onFrame
                 /\ a \in Range(currentFrame) =>
                      /\ Len(currentFrame') = Len(currentFrame)
                      /\ \E i \in 1..Len(currentFrame') :
                            /\ currentFrame'[i] = a
                            /\ RemoveAt(currentFrame', i)
                                 = RemoveAt(currentFrame, indexOf(currentFrame, a))
                            /\ \A j \in 1..(i - 1) :
                                  sv'[currentFrame'[j]].priority <= sv'[a].priority
                            /\ i < Len(currentFrame') =>
                                  sv'[currentFrame'[i + 1]].priority > sv'[a].priority
                 /\ a \notin Range(currentFrame) => currentFrame' = currentFrame]_vars

----------------------------------------------------------------------------
(* Properties of the Merged Configuration *)

\* The Merged Configuration of a caller's config c alone: what c gives, and
\* the default of every parameter c omits.
Replaced(c) ==
    [tension      |-> IF c.tension = None THEN 170 ELSE Get(c.tension),
     friction     |-> IF c.friction = None THEN 26 ELSE Get(c.friction),
     mass         |-> IF c.mass = None THEN 1 ELSE Get(c.mass),
     velocity     |-> IF c.velocity = None THEN 0 ELSE Get(c.velocity),
     precision    |-> IF c.precision = None THEN 10 ELSE Get(c.precision),
     clamp        |-> IF c.clamp = None THEN FALSE ELSE Get(c.clamp),
     easing       |-> IF c.easing = None THEN "linear" ELSE Get(c.easing),
     duration     |-> c.duration,
     decay        |-> c.decay,
     bounce       |-> c.bounce,
     round        |-> c.round,
     restVelocity |-> c.restVelocity,
     progress     |-> c.progress]

\* C30: a start that carries a config leaves the Value with that config and
\* the default of every parameter it omits, whatever the configuration was
\* before; a start without config leaves the configuration as it was.
C30_ConfigReplaced ==
    [][\A k \in Keys :
        (last'.op = "start" /\ last'.k = k) =>
            IF last'.props.config # None
            THEN sv'[k].config = Replaced(Get(last'.props.config))
            ELSE sv'[k].config = sv[k].config]_vars

\* C30 witness: the second start of a Value carried { duration: 2 } and the
\* Value, started before with tension 0, is back at the default tension.
C30_Witness ==
    /\ last.op = "start"
    /\ last.props.config = Some(TimedConfig)
    /\ Len(results) = 2
    /\ results[1].k = last.k /\ results[1].state = "settled"
    /\ results[1].cancelled = None /\ results[1].noop = None
    /\ sv[last.k].value # sv[last.k].from
    /\ sv[last.k].config.tension = 170

----------------------------------------------------------------------------
(* Properties of the duration rule *)

\* Value k is advanced by the handler that ends in the next state, having
\* been advanced and nothing else since the start of its animation, in
\* duration mode with linear easing and progress 0.
LinearAdvance(k) ==
    /\ last'.op \in {"advance", "tick"}
    /\ sv[k].animating /\ ~sv[k].paused
    /\ ran[k].course = "ticks"
    /\ sv[k].config.tension > 0
    /\ sv[k].config.duration # None
    /\ sv[k].config.easing = "linear"
    /\ sv[k].config.progress = None
    /\ sv[k].config.round = None

----------------------------------------------------------------------------
(* Properties of the rest precision *)

\* The precision of the fallback of advance, in units of 0.001: 0.005 when
\* the segment is empty, else min(1, |to - from| * 0.001).
SegmentPrecision(from, to) ==
    IF from = to THEN 5 ELSE IF Abs(to - from) < 1000 THEN Abs(to - from) ELSE 1000

\* A start has just given Value k the config c and begun an animation.
StartedWith(k, c) ==
    /\ last'.op = "start" /\ last'.k = k
    /\ last'.props.config = Some(c)
    /\ sv'[k].animating

\* C29 as stated: after a start whose config specifies no precision, the
\* precision the advances use is 0.005 on an empty segment and
\* min(1, |to - from| * 0.001) otherwise.
C29_SegmentPrecision ==
    [][\A k \in Keys : \A c \in RuleConfigs :
        (StartedWith(k, c) /\ c.precision = None) =>
            \A i \in 1..Len(sv'[k].to) :
                restPrecision(sv'[k].config, sv'[k].from[i], sv'[k].to[i])
                    = SegmentPrecision(sv'[k].from[i], sv'[k].to[i])]_vars

\* C29 amended: after a start whose config specifies no precision the
\* advances use 0.01; after one whose config specifies precision 0 they use
\* 0.005 on an empty segment and min(1, |to - from| * 0.001) otherwise.
C29_ZeroPrecision ==
    [][\A k \in Keys : \A c \in RuleConfigs :
        StartedWith(k, c) =>
            \A i \in 1..Len(sv'[k].to) :
                restPrecision(sv'[k].config, sv'[k].from[i], sv'[k].to[i])
                    = IF c.precision = None THEN 10
                      ELSE IF c.precision = Some(0)
                      THEN SegmentPrecision(sv'[k].from[i], sv'[k].to[i])
                      ELSE Get(c.precision)]_vars

\* C29 witness: a start with { precision: 0 } has begun an animation from 0
\* to 8.
C29_Witness ==
    /\ last.op = "start"
    /\ last.props.config = Some(FineConfig)
    /\ sv[last.k].animating
    /\ sv[last.k].from = <<0>> /\ sv[last.k].to = <<8>>
    /\ sv[last.k].config.precision = 0

----------------------------------------------------------------------------
(* Properties of the component states *)

\* C27: a Value has as many Scalar Component States as its current value has
\* numeric leaves, and as many as its goal has.
C27_NodePerLeaf ==
    \A k \in Keys :
        /\ Len(sv[k].nodes) = Len(sv[k].value)
        /\ Len(sv[k].nodes) = Len(sv[k].to)

----------------------------------------------------------------------------
(* Properties of the NaN recovery *)

\* The position that the coming advance computes for component i of Value s
\* is NaN: a NaN is among the operands of the rule of its configuration.
PositionIsNaN(s, i) ==
    /\ ~s.nodes[i].done
    /\ s.config.tension > 0
    /\ IF s.config.duration # None THEN s.from[i] = NaN \/ s.to[i] = NaN
       ELSE IF Truthy(s.config.decay) THEN s.from[i] = NaN
       ELSE s.nodes[i].lastPosition = NaN \/ s.to[i] = NaN

\* C28: an advance that computes a NaN position for a component marks that
\* component done; when it leaves every component done the Value is not
\* animating and each pending result is settled with finished = true and no
\* cancelled.
C28_NaNCompletes ==
    [][\A k \in Keys : \A i \in 1..Len(sv[k].nodes) :
        (Advances(k) /\ PositionIsNaN(sv[k], i)) =>
            /\ sv'[k].nodes[i].done
            /\ (\A j \in 1..Len(sv'[k].nodes) : sv'[k].nodes[j].done) =>
                  /\ ~sv'[k].animating
                  /\ \A r \in 1..Len(results) :
                        PendingOn(k, r) =>
                           /\ results'[r].state = "settled"
                           /\ results'[r].finished = Some(TRUE)
                           /\ results'[r].cancelled = None]_vars

\* C28 witness: an advance in spring mode towards [8, NaN] has marked the
\* second component done and published NaN for it, the first still moving.
C28_Witness ==
    /\ last.op \in {"advance", "tick"}
    /\ sv["a"].config.duration = None /\ ~Truthy(sv["a"].config.decay)
    /\ sv["a"].to = <<8, NaN>>
    /\ sv["a"].nodes[2].done /\ ~sv["a"].nodes[1].done
    /\ sv["a"].value[2] = NaN
    /\ sv["a"].animating

----------------------------------------------------------------------------
(* Properties of the default spring *)

\* The frames of 16 ms that advanced Value k since its start.
Frames(k) == ran[k].t \div SpringDt

\* C22: the default spring from 0 to 100, advanced by frames of 16 ms, is
\* still animating only while fewer than 200 frames advanced it, and the
\* frame that ends the animation leaves the value 100 and settles the result
\* of the start with finished = true.
C22_SettlesInTime ==
    \A k \in OneKey :
        /\ sv[k].animating => Frames(k) < 199
        /\ (results # <<>> /\ ~sv[k].animating) =>
              /\ RestIn(last, k)
              /\ Frames(k) < 200
              /\ sv[k].value = SpringGoal
              /\ results[1].state = "settled"
              /\ results[1].finished = Some(TRUE)
              /\ results[1].cancelled = None

\* C22 witness: a frame has ended the animation at 100, after more than a
\* hundred frames.
C22_Witness ==
    /\ last.op = "tick"
    /\ RestIn(last, "a")
    /\ ~sv["a"].animating
    /\ sv["a"].value = SpringGoal
    /\ Frames("a") > 100 /\ Frames("a") < 200

----------------------------------------------------------------------------
(* Properties of the controller's key lists, start and destruction *)

\* The handler `call` threw.
ThrewIn(call) == \E i \in 1..Len(call.ev) : call.ev[i].e = "throw"

\* What the step left alone of Value k: its fields, its place in the frame
\* loop and the promises of its starts.
Untouched(k) ==
    /\ sv'[k] = sv[k]
    /\ (k \in Range(currentFrame')) = (k \in Range(currentFrame))
    /\ (k \in Range(startQueue')) = (k \in Range(startQueue))
    /\ \A r \in 1..Len(results) : results[r].k = k => results'[r] = results[r]

\* What stopKeys, pauseKeys and resumeKeys do to a Value they name.
KeyEffect(op, k) ==
    /\ op = "stopKeys" =>
            /\ ~sv'[k].animating
            /\ sv[k].animating =>
                    \A r \in 1..Len(results) : PendingOn(k, r) => results'[r].state = "settled"
    /\ op = "pauseKeys" => sv'[k].paused
    /\ op = "resumeKeys" => ~sv'[k].paused /\ (sv[k].animating => k \in Range(currentFrame') \cup Range(startQueue'))

\* C25: stopKeys(K), pauseKeys(K) and resumeKeys(K) act on the owned Values
\* whose key is in K and on no other: a Value whose key is not in K keeps its
\* state, its registration and its promises, no call throws, no promise is
\* made, and a list that names only keys the controller does not have
\* changes nothing at all.
C25_KeysOnly ==
    [][last'.op \in {"stopKeys", "pauseKeys", "resumeKeys"} =>
        /\ \A k \in Keys \ last'.keys : Untouched(k)
        /\ \A k \in Keys \cap last'.keys : KeyEffect(last'.op, k)
        /\ ~ThrewIn(last')
        /\ Len(results') = Len(results)
        /\ ctl' = ctl
        /\ last'.keys \cap Keys = {} =>
                /\ sv' = sv /\ results' = results
                /\ currentFrame' = currentFrame /\ startQueue' = startQueue]_vars

\* pauseKeys(["b", "z"]) while both Values animate: b is paused, a runs on.
C25_Witness ==
    /\ last.op = "pauseKeys"
    /\ last.keys = {"b", "z"}
    /\ sv["a"].animating /\ ~sv["a"].paused
    /\ sv["b"].animating /\ sv["b"].paused

\* The props of a controller start give key k nothing to apply.
NothingFor(props, k) ==
    /\ props.to[k] = None /\ props.from[k] = None
    /\ props.config = None /\ props.immediate = None

\* The promises of the aggregate the step added.
Counted == Range(ctl'[Len(ctl')].promises)

\* C26: springRef.start(props) does not call start on a Value whose key gets
\* no `to`, no `from`, no config and no `immediate`: the Value is left as it
\* was and no promise of it is awaited, while every other key has one promise
\* made and awaited; an aggregate that awaits no promise settles with
\* finished = true and cancelled = false.
C26_SkipsBareKeys ==
    [][(last'.op = "springRef.start" =>
            /\ Len(ctl') = Len(ctl) + 1
            /\ ~ThrewIn(last')
            /\ Counted = (Len(results) + 1)..Len(results')
            /\ \A k \in Keys :
                    IF NothingFor(last'.props, k)
                    THEN Untouched(k) /\ \A r \in Counted : results'[r].k # k
                    ELSE Cardinality({r \in Counted : results'[r].k = k}) = 1)
       /\ (last'.op = "springRef.start.return" =>
            \A j \in 1..Len(ctl) :
                (ctl'[j] # ctl[j] /\ ctl[j].promises = <<>>) =>
                    /\ ctl'[j].state = "settled"
                    /\ ctl'[j].finished /\ ~ctl'[j].cancelled)]_vars

\* A start that gave only key b a target was followed by one that gave no key
\* anything, and the second has settled as finished.
C26_Witness ==
    /\ last.op = "springRef.start.return"
    /\ Len(ctl) = 2
    /\ Len(ctl[1].promises) = 1 /\ results[ctl[1].promises[1]].k = "b"
    /\ ctl[2].promises = <<>>
    /\ ctl[2].state = "settled" /\ ctl[2].finished /\ ~ctl[2].cancelled
    /\ sv["a"].value = <<0>> /\ ~sv["a"].animating

\* Promise r was pending before the step and the step settled it as finished.
SettledFinished(r) ==
    /\ results'[r].state = "settled"
    /\ Truthy(results'[r].finished)
    /\ ~Truthy(results'[r].cancelled)

\* C23: the destruction of the controller leaves no Value animating and
\* settles every promise that was pending on one of its Values with
\* finished = true and cancelled = false, whatever starts, pauses and ticks
\* came before.
C23_TeardownSettles ==
    [][last'.op = "onDestroy" =>
        /\ \A k \in Keys : ~sv'[k].animating
        /\ \A r \in 1..Len(results) :
                results[r].state = "pending" => SettledFinished(r)]_vars

\* The operations of the controller and of a Value it made.
Operations ==
    {"springRef.get", "springRef.getAll", "springRef.start", "springRef.stop",
     "springRef.pause", "springRef.resume", "springRef.finish", "start"}

\* The step reported an error: it threw, or it is a springRef.start whose
\* promise is rejected or will be when its continuation runs.
Reported ==
    \/ ThrewIn(last')
    \/ last'.op = "springRef.start" /\ ctl'[Len(ctl')].state = "pending"

\* C24: once the controller is destroyed, every get, getAll, start, stop,
\* pause, resume and finish on it, and every operation on one of its Values,
\* reports an error; none passes in silence or is carried out.
C24_ErrorAfterTeardown ==
    [][(owned = {} /\ last'.op \in Operations) => Reported]_vars

----------------------------------------------------------------------------
(* Properties of the pending completions and of the registration *)

\* C31: a Value that is not animating has no completion callback queued and
\* no start promise pending on it, whatever starts (immediate and no-op ones
\* included), sets, stops, finishes, pauses, resumes and ticks came before.
C31_NoPendingAtRest ==
    \A k \in Keys :
        ~sv[k].animating =>
            /\ sv[k].pendingResolvers = <<>>
            /\ \A r \in 1..Len(results) : ~PendingOn(k, r)

\* C32: when no tick is in progress, every handle that is animating and not
\* paused is in the running list or in the pending-start set, also after a
\* start or resume called from an observer during a tick in which the handle
\* had had its turn and was idle at it.
C32_RunningIsRegistered ==
    ~loop.inTick =>
        \A k \in Handles :
            (sv[k].animating /\ ~sv[k].paused) =>
                k \in Range(currentFrame) \cup Range(startQueue)

\* The step called frameLoop.start(k): a start that animates, or a resume of
\* an animating Value.
CalledLoopStart(k) ==
    /\ last'.k = k
    /\ \/ /\ last'.op = "start"
          /\ Len(results') > Len(results)
          /\ results'[Len(results')].state = "pending"
       \/ last'.op = "resume" /\ sv[k].animating

\* C33: a frameLoop.start(a) issued while no tick is in progress puts a into
\* the running list in the same call, whatever the priority of a, and adds
\* nothing to the pending-start set.
C33_StartsAtOnce ==
    [][\A k \in Handles :
        (~loop.inTick /\ CalledLoopStart(k)) =>
            /\ k \in Range(currentFrame')
            /\ startQueue' = startQueue]_vars

\* x comes before y in the list arr.
Before(arr, x, y) ==
    \E i, j \in 1..Len(arr) : i < j /\ arr[i] = x /\ arr[j] = y

\* The handles advanced so far in the tick in progress, in the order of
\* their turns.
TurnOrder == [i \in 1..Len(loop.turns) |-> loop.turns[i].k]

C35_NoopAtRest ==
    [][\A k \in Keys :
        (/\ last'.op = "start" /\ last'.k = k
         /\ Len(results') > Len(results)
         /\ results'[Len(results')].noop = Some(TRUE)) =>
            ~sv'[k].animating]_vars

\* Number x lies between a and b, inclusive.
Between(x, a, b) == (a <= x /\ x <= b) \/ (b <= x /\ x <= a)

\* The step before was a start({to}) that found Value k at rest: the value of
\* k is still the value it rested at.
JustStarted(k) ==
    /\ last.op = "start" /\ last.k = k
    /\ last.props.from = None
    /\ sv[k].animating
    /\ Len(sv[k].pendingResolvers) = 1

\* C36: in duration mode, after start({to}) without `from` on a Value at
\* rest at v, the value published by the advance that follows lies between
\* v and the goal, also when the Value earlier completed an animation that
\* began from a different value.
C36_SegmentFromCurrent ==
    [][\A k \in Keys :
        (JustStarted(k) /\ last'.op = "tick" /\ sv[k].config.duration # None) =>
            \A i \in 1..Len(sv[k].value) :
                Between(sv'[k].value[i], sv[k].value[i], sv[k].to[i])]_vars

----------------------------------------------------------------------------
(* Properties of the spring rule and of completion *)

\* Value k steps by the spring rule: no duration, no decay, tension > 0.
SpringMode(k) ==
    /\ sv[k].config.duration = None
    /\ ~decaying(sv[k].config)
    /\ sv[k].config.tension > 0

\* The state the sub-steps of component i start from when they start from
\* the component's position and velocity.
CurrentState(k, i) ==
    [node |-> sv[k].nodes[i], memo |-> sv[k].memoizedDuration,
     position |-> sv[k].nodes[i].position, velocity |-> sv[k].nodes[i].velocity,
     finished |-> FALSE]

\* The sub-steps of dt ms of component i from that state.
FromCurrent(k, i, dt) ==
    IF WholeSpring(sv[k].config)
    THEN springLoop(sv[k].config, sv[k].nodes[i], sv[k].from[i], sv[k].to[i],
                    CurrentState(k, i), dt)
    ELSE fixedLoop(sv[k].config, sv[k].nodes[i], sv[k].from[i], sv[k].to[i],
                   CurrentState(k, i), dt)

\* C37: in spring mode an advance integrates its sub-steps from the
\* component's current position, the one the advance before it produced and
\* published (the start value at the first advance), and from the velocity
\* that advance produced: the position it leaves is the result of these
\* sub-steps, or the goal when they find the spring at rest.
C37_StepsFromCurrent ==
    [][\A k \in Keys :
        (/\ last'.op = "tick"
         /\ sv[k].animating /\ ~sv[k].paused
         /\ k \in Range(currentFrame)
         /\ SpringMode(k)) =>
            \A i \in 1..Len(sv[k].nodes) :
                ~sv[k].nodes[i].done =>
                    sv'[k].nodes[i].position =
                        IF FromCurrent(k, i, last'.dt).finished
                        THEN sv[k].to[i]
                        ELSE FromCurrent(k, i, last'.dt).position]_vars

\* The step is an advance that completed the animation of Value k.
Completes(k) ==
    /\ last'.op \in {"tick", "advance"}
    /\ sv[k].animating /\ ~sv'[k].animating
    /\ sv[k].config.tension > 0

\* The value the step published for k and gave to the promises it settled
\* is v.
CompletesWith(k, v) ==
    /\ sv'[k].value = v
    /\ \A i \in EventsOf(last', "settle", k) : last'.ev[i].value = v

\* The goal of k, each component on the grid of config.round if there is one.
QuantizedGoal(k) ==
    [i \in 1..Len(sv[k].to) |->
        IF sv[k].config.round # None
        THEN roundTo(sv[k].to[i], Get(sv[k].config.round))
        ELSE sv[k].to[i]]

\* C38 as stated: an advance that completes an animation with tension > 0
\* publishes the goal and settles the promises with the goal, whatever the
\* duration, decay, bounce, clamp and round of the configuration.
C38_CompletesAtGoal ==
    [][\A k \in Keys : Completes(k) => CompletesWith(k, sv[k].to)]_vars

\* C38 (amended): an advance that completes an animation with tension > 0
\* publishes, and settles the promises with, the goal when the configuration
\* has no `round`, and the multiple of `round` nearest to the goal when it
\* has one, whatever its duration, decay, bounce and clamp.
C38_CompletesAtQuantizedGoal ==
    [][\A k \in Keys : Completes(k) => CompletesWith(k, QuantizedGoal(k))]_vars

\* An animation to 8 with round: 3 has just completed at 9.
C38_Witness ==
    /\ last.op \in {"tick", "advance"}
    /\ \E i \in 1..Len(last.ev) : last.ev[i].e = "rest"
    /\ sv["a"].config.round = Some(3)
    /\ sv["a"].to = <<8>>
    /\ sv["a"].value = <<9>>
    /\ ~sv["a"].animating

----------------------------------------------------------------------------
(* Properties of the promises pending together, and of a start while paused *)

\* The promises pending on Value k before the step.
PendingBefore(k) == {r \in 1..Len(results) : PendingOn(k, r)}

\* The step ends the animation of Value k: the advance that completes it, or
\* stop, finish or set called on it while it animates.
TerminalEvent(k) ==
    /\ sv[k].animating
    /\ \/ last'.op \in {"stop", "finish", "set"} /\ last'.k = k
       \/ last'.op \in {"tick", "advance"} /\ ~sv'[k].animating

\* The step settled all the promises that were pending on k, each by one
\* call of its resolver and all with the same result.
SettledTogether(k) ==
    /\ \A r \in PendingBefore(k) :
            /\ results'[r].state = "settled" /\ results'[r].calls = 1
            /\ Cardinality({i \in EventsOf(last', "settle", k) : last'.ev[i].r = r}) = 1
    /\ \A q, r \in PendingBefore(k) :
            /\ results'[q].finished = results'[r].finished
            /\ results'[q].cancelled = results'[r].cancelled
    /\ \A i, j \in EventsOf(last', "settle", k) : last'.ev[i].value = last'.ev[j].value

\* C39: a start leaves the promises of the earlier starts of the Value as
\* they are; the promises pending on a Value are settled by no step but the
\* one that ends its animation (the completing advance, stop, finish or
\* set), and that step settles them all, each once, with the same finished,
\* cancelled and value.
C39_SettledTogether ==
    [][\A k \in Keys :
        /\ (last'.op = "start" /\ last'.k = k) =>
                \A r \in 1..Len(results) : results[r].k = k => results'[r] = results[r]
        /\ TerminalEvent(k) => SettledTogether(k)
        /\ ~TerminalEvent(k) => \A r \in PendingBefore(k) : results'[r] = results[r]]_vars

\* Two promises were pending on a Value and a stop(true) has just cancelled
\* them both.
C39_Witness ==
    /\ last.op = "stop" /\ last.cancel
    /\ Cardinality(EventsOf(last, "settle", "a")) = 2
    /\ \A r \in 1..2 : results[r].state = "settled" /\ results[r].cancelled = Some(TRUE)

\* The step is a start({to}) on Value k with a goal other than its value.
StartsTowards(k) ==
    /\ last'.op = "start" /\ last'.k = k
    /\ last'.props.to # None /\ last'.props.from = None /\ last'.props.immediate = None
    /\ ~isEqual(sv[k].value, Get(last'.props.to))

\* C40: start leaves the paused flag as it is; a start({to}) with a goal
\* other than the value on a paused Value marks it animating and makes a
\* pending promise; while the Value is paused no tick or advance changes it,
\* and a promise pending on it stays pending over every step that is not a
\* resume, stop, finish or set of the Value.
C40_StartKeepsPaused ==
    [][\A k \in Keys :
        /\ (last'.op = "start" /\ last'.k = k) => sv'[k].paused = sv[k].paused
        /\ (sv[k].paused /\ StartsTowards(k)) =>
                /\ sv'[k].animating
                /\ results'[Len(results')].state = "pending"
                /\ results'[Len(results')].k = k
        /\ (sv[k].paused /\ last'.op \in {"tick", "advance"}) => sv'[k] = sv[k]
        /\ (sv[k].paused /\ ~(last'.k = k /\ last'.op \in {"resume", "stop", "finish", "set"})) =>
                \A r \in PendingBefore(k) : results'[r].state = "pending"]_vars

\* A paused Value at rest was started towards 8, and a tick has passed: it
\* animates, has not moved, and its promise is pending.
C40_Witness ==
    /\ last.op = "tick"
    /\ sv["a"].paused /\ sv["a"].animating
    /\ sv["a"].value = <<0>> /\ sv["a"].to = <<8>>
    /\ Len(results) = 1 /\ PendingOn("a", 1)
    /\ ran["a"].t = 0

============================================================================
